---- MODULE Spec2Model ----
(***************************************************************************)
(* Verification model of the USDRIF tracker: the token-data refresh cycle  *)
(* (App.tsx: formatAmount, getWorkingProvider, queryOptionalMetric,        *)
(* fetchTokenData and the mount effect) and the metric history store       *)
(* (history.ts: saveMetricHistory, getMetricHistory, clearAllHistory).     *)
(*                                                                         *)
(* Numbers.  A bigint is a big-endian sequence of decimal digits without   *)
(* leading zeros (zero is <<0>>), so that uint256 amounts scaled by 10^18  *)
(* are represented exactly.  A JavaScript string is a sequence of          *)
(* one-character strings.  A JavaScript number is an exact rational        *)
(* num/den with a sign, or NaN, or an infinity: the binary rounding of a   *)
(* double (relative error below 2^-52 per operation) is not modelled, the  *)
(* special values and every branch taken on them are.                      *)
(***************************************************************************)
EXTENDS Integers, Sequences, FiniteSets, TLC

(***************************************************************************)
(* Nullable values: T | null                                               *)
(***************************************************************************)
Null == [isNull |-> TRUE]
Just(x) == [isNull |-> FALSE, v |-> x]

(***************************************************************************)
(* bigint arithmetic on digit sequences                                    *)
(***************************************************************************)
Zero == <<0>>
One == <<1>>

\* strip leading zeros
Norm(s) ==
  IF \A i \in 1..Len(s) : s[i] = 0 THEN Zero
  ELSE LET f == CHOOSE i \in 1..Len(s) : s[i] # 0 /\ \A j \in 1..(i - 1) : s[j] = 0
       IN SubSeq(s, f, Len(s))

Zeros(n) == [i \in 1..n |-> 0]

PadLeft(s, n) == IF Len(s) >= n THEN s ELSE Zeros(n - Len(s)) \o s

Max(a, b) == IF a >= b THEN a ELSE b

\* -1, 0, 1 for a < b, a = b, a > b
CmpBig(a, b) ==
  IF Len(a) < Len(b) THEN -1
  ELSE IF Len(a) > Len(b) THEN 1
  ELSE IF a = b THEN 0
  ELSE LET f == CHOOSE i \in 1..Len(a) : a[i] # b[i] /\ \A j \in 1..(i - 1) : a[j] = b[j]
       IN IF a[f] < b[f] THEN -1 ELSE 1

\* a + b, the carry into each position found by look-ahead
AddBig(a, b) ==
  LET n == Max(Len(a), Len(b))
      x == PadLeft(a, n)
      y == PadLeft(b, n)
      carryInto(i) == \E j \in (i + 1)..n :
                        /\ x[j] + y[j] >= 10
                        /\ \A k \in (i + 1)..(j - 1) : x[k] + y[k] = 9
      digit(i) == (x[i] + y[i] + (IF carryInto(i) THEN 1 ELSE 0)) % 10
  IN Norm((IF carryInto(0) THEN <<1>> ELSE <<>>) \o [i \in 1..n |-> digit(i)])

\* a - b for a >= b, the borrow from each position found by look-ahead
SubBig(a, b) ==
  LET n == Len(a)
      y == PadLeft(b, n)
      borrowFrom(i) == \E j \in (i + 1)..n :
                         /\ a[j] < y[j]
                         /\ \A k \in (i + 1)..(j - 1) : a[k] = y[k]
      digit(i) == (a[i] - y[i] - (IF borrowFrom(i) THEN 1 ELSE 0) + 10) % 10
  IN Norm([i \in 1..n |-> digit(i)])

\* a * m for a digit m in 0..9
RECURSIVE MulSmall(_, _)
MulSmall(a, m) == IF m = 0 THEN Zero ELSE AddBig(MulSmall(a, m - 1), a)

\* a * 10^n
Shift(a, n) == IF a = Zero THEN Zero ELSE a \o Zeros(n)

Pow10(n) == <<1>> \o Zeros(n)

\* a / 10^n and a % 10^n, read off the decimal digits
DivPow10(a, n) == IF Len(a) <= n THEN Zero ELSE SubSeq(a, 1, Len(a) - n)
ModPow10(a, n) == IF Len(a) <= n THEN a ELSE Norm(SubSeq(a, Len(a) - n + 1, Len(a)))

\* <<0, a, 2a, ..., d * a>>
RECURSIVE MultiplesUpTo(_, _)
MultiplesUpTo(a, d) ==
  IF d = 0 THEN <<Zero>>
  ELSE LET prev == MultiplesUpTo(a, d - 1)
       IN Append(prev, AddBig(prev[d], a))

Multiples(a) == MultiplesUpTo(a, 9)

\* a times the number written by the digits lo..hi of b, m being Multiples(a)
RECURSIVE MulRange(_, _, _, _)
MulRange(m, b, lo, hi) ==
  IF lo = hi THEN m[b[lo] + 1]
  ELSE LET mid == (lo + hi) \div 2
       IN AddBig(Shift(MulRange(m, b, lo, mid), hi - mid), MulRange(m, b, mid + 1, hi))

\* a is a power of ten
IsPow10(a) == a[1] = 1 /\ \A i \in 2..Len(a) : a[i] = 0

\* a * b
MulBig(a, b) ==
  IF a = Zero \/ b = Zero THEN Zero
  ELSE IF IsPow10(b) THEN Shift(a, Len(b) - 1)
  ELSE IF IsPow10(a) THEN Shift(b, Len(a) - 1)
  ELSE MulRange(Multiples(a), b, 1, Len(b))

\* long division of the digits lo..hi of a with the remainder rem carried in,
\* m being Multiples(b): the digits of the quotient and the remainder
RECURSIVE DivRange(_, _, _, _, _)
DivRange(a, m, lo, hi, rem) ==
  IF lo = hi
  THEN LET cur == Norm(rem \o <<a[lo]>>)
           k == CHOOSE d \in 0..9 :
                  /\ CmpBig(m[d + 1], cur) <= 0
                  /\ (d = 9 \/ CmpBig(m[d + 2], cur) > 0)
       IN [q |-> <<k>>, r |-> SubBig(cur, m[k + 1])]
  ELSE LET mid == (lo + hi) \div 2
           left == DivRange(a, m, lo, mid, rem)
           right == DivRange(a, m, mid + 1, hi, left.r)
       IN [q |-> left.q \o right.q, r |-> right.r]

\* [q |-> floor(a / b), r |-> a mod b] for b # 0
DivModBig(a, b) ==
  IF IsPow10(b) THEN [q |-> DivPow10(a, Len(b) - 1), r |-> ModPow10(a, Len(b) - 1)]
  ELSE LET res == DivRange(a, Multiples(b), 1, Len(a), Zero)
       IN [q |-> Norm(res.q), r |-> res.r]
DivBig(a, b) == DivModBig(a, b).q
ModBig(a, b) == DivModBig(a, b).r

\* the number of trailing zero digits of a # 0
TrailingZeros(a) ==
  IF a = Zero THEN 0
  ELSE Len(a) - (CHOOSE i \in 1..Len(a) : a[i] # 0 /\ \A j \in (i + 1)..Len(a) : a[j] = 0)

(***************************************************************************)
(* strings                                                                 *)
(***************************************************************************)
DigitChar == <<"0", "1", "2", "3", "4", "5", "6", "7", "8", "9">>
DigitOf(c) == (CHOOSE k \in 1..10 : DigitChar[k] = c) - 1

\* bigint.toString()
ToStr(a) == [i \in 1..Len(a) |-> DigitChar[a[i] + 1]]

\* String.prototype.padStart(n, '0')
PadStart(s, n) == IF Len(s) >= n THEN s ELSE [i \in 1..(n - Len(s)) |-> "0"] \o s

\* String.prototype.replace(/0+$/, '')
StripTrailingZeros(s) ==
  IF \A i \in 1..Len(s) : s[i] = "0" THEN <<>>
  ELSE LET l == CHOOSE i \in 1..Len(s) : s[i] # "0" /\ \A j \in (i + 1)..Len(s) : s[j] = "0"
       IN SubSeq(s, 1, l)

(***************************************************************************)
(* formatAmount (App.tsx)                                                  *)
(***************************************************************************)
MinDecimals == 0
MaxDecimals == 255

Threw == [threw |-> TRUE]
Returned(x) == [threw |-> FALSE, v |-> x]
ValueOr(r, default) == IF r.threw THEN default ELSE r.v

\* formatAmount without the padStart of the fraction
formatAmountUnpadded(amount, decimals) ==
  IF amount = Zero THEN Returned(<<"0">>)
  ELSE IF decimals < MinDecimals \/ decimals > MaxDecimals THEN Threw
  ELSE LET whole == DivPow10(amount, decimals)
           frac == ModPow10(amount, decimals)
           fracStr == StripTrailingZeros(ToStr(frac))
       IN IF frac = Zero THEN Returned(ToStr(whole))
          ELSE IF Len(fracStr) > 0 THEN Returned(ToStr(whole) \o <<".">> \o fracStr)
          ELSE Returned(ToStr(whole))

\* formatAmount(amount, decimals): the decimal string of amount / 10^decimals,
\* or the "Invalid decimals value" error
formatAmount(amount, decimals) ==
  IF amount = Zero THEN Returned(<<"0">>)
  ELSE IF decimals < MinDecimals \/ decimals > MaxDecimals THEN Threw
  ELSE LET whole == DivPow10(amount, decimals)
           frac == ModPow10(amount, decimals)
           fracStr == StripTrailingZeros(PadStart(ToStr(frac), decimals))
       IN IF frac = Zero THEN Returned(ToStr(whole))
          ELSE IF Len(fracStr) > 0 THEN Returned(ToStr(whole) \o <<".">> \o fracStr)
          ELSE Returned(ToStr(whole))

(***************************************************************************)
(* JavaScript numbers                                                      *)
(***************************************************************************)
NaN == [kind |-> "nan"]
Infinity(neg) == [kind |-> "inf", neg |-> neg]
\* num/den, with the powers of ten common to both cancelled
Fin(neg, num, den) ==
  LET z == IF TrailingZeros(num) <= TrailingZeros(den) THEN TrailingZeros(num)
           ELSE TrailingZeros(den)
  IN [kind |-> "fin", neg |-> (neg /\ num # Zero),
      num |-> DivPow10(num, z), den |-> IF num = Zero THEN One ELSE DivPow10(den, z)]

IsFin(x) == x.kind = "fin"
IsZeroNum(x) == IsFin(x) /\ x.num = Zero

\* index of the decimal point in s, or Len(s) + 1 when there is none
PointAt(s) == IF \E i \in 1..Len(s) : s[i] = "."
              THEN CHOOSE i \in 1..Len(s) : s[i] = "."
              ELSE Len(s) + 1

\* parseFloat of a string of the form digits[.digits]
parseFloat(s) ==
  LET p == PointAt(s)
      whole == [i \in 1..(p - 1) |-> DigitOf(s[i])]
      frac == IF p >= Len(s) THEN <<>> ELSE [i \in 1..(Len(s) - p) |-> DigitOf(s[p + i])]
  IN Fin(FALSE, Norm(whole \o frac), Pow10(Len(frac)))

\* x / y
NumDiv(x, y) ==
  IF x.kind = "nan" \/ y.kind = "nan" THEN NaN
  ELSE IF x.kind = "inf" THEN (IF y.kind = "inf" THEN NaN ELSE Infinity(x.neg # y.neg))
  ELSE IF y.kind = "inf" THEN Fin(FALSE, Zero, One)
  ELSE IF y.num = Zero THEN (IF x.num = Zero THEN NaN ELSE Infinity(x.neg # y.neg))
  ELSE Fin(x.neg # y.neg, MulBig(x.num, y.den), MulBig(x.den, y.num))

\* x * y
NumMul(x, y) ==
  IF x.kind = "nan" \/ y.kind = "nan" THEN NaN
  ELSE IF x.kind = "inf" \/ y.kind = "inf"
       THEN (IF IsZeroNum(x) \/ IsZeroNum(y) THEN NaN ELSE Infinity(x.neg # y.neg))
  ELSE Fin(x.neg # y.neg, MulBig(x.num, y.num), MulBig(x.den, y.den))

\* x - y
NumSub(x, y) ==
  IF x.kind = "nan" \/ y.kind = "nan" THEN NaN
  ELSE IF x.kind = "inf"
       THEN (IF y.kind = "inf" /\ y.neg = x.neg THEN NaN ELSE Infinity(x.neg))
  ELSE IF y.kind = "inf" THEN Infinity(~y.neg)
  ELSE LET a == MulBig(x.num, y.den)
           b == MulBig(y.num, x.den)
           d == MulBig(x.den, y.den)
       IN IF x.neg # y.neg THEN Fin(x.neg, AddBig(a, b), d)
          ELSE IF CmpBig(a, b) >= 0 THEN Fin(x.neg, SubBig(a, b), d)
          ELSE Fin(~x.neg, SubBig(b, a), d)

\* x > 0
NumGtZero(x) ==
  IF x.kind = "nan" THEN FALSE
  ELSE IF x.kind = "inf" THEN ~x.neg
  ELSE ~x.neg /\ x.num # Zero

\* x <= y
NumLeq(x, y) == LET d == NumSub(x, y) IN d.kind # "nan" /\ ~NumGtZero(d)

\* ceil(a / b) for b # 0
CeilDivBig(a, b) ==
  IF ModBig(a, b) = Zero THEN DivBig(a, b) ELSE AddBig(DivBig(a, b), One)

\* Math.floor(x) (NaN and the infinities are left as they are)
MathFloor(x) ==
  IF ~IsFin(x) THEN x
  ELSE IF x.neg THEN Fin(TRUE, CeilDivBig(x.num, x.den), One)
  ELSE Fin(FALSE, DivBig(x.num, x.den), One)

\* the literal 1e18
E18 == Fin(FALSE, Pow10(18), One)

\* a signed bigint
SignedBig(neg, mag) == [neg |-> (neg /\ mag # Zero), mag |-> mag]

\* BigInt(x) for an integral x; a RangeError for NaN and the infinities
ToBigInt(x) ==
  IF IsFin(x) THEN Returned(SignedBig(x.neg, DivBig(x.num, x.den))) ELSE Threw

\* bigint.toString() of a signed bigint
SignedToStr(b) == (IF b.neg THEN <<"-">> ELSE <<>>) \o ToStr(b.mag)

\* Number.prototype.toString() of an integral x of magnitude below 1e21
NumToStr(x) ==
  IF x.kind = "nan" THEN <<"N", "a", "N">>
  ELSE IF x.kind = "inf"
       THEN (IF x.neg THEN <<"-">> ELSE <<>>) \o <<"I", "n", "f", "i", "n", "i", "t", "y">>
  ELSE (IF x.neg THEN <<"-">> ELSE <<>>) \o ToStr(DivBig(x.num, x.den))

(***************************************************************************)
(* queryOptionalMetric and the mintable calculation (App.tsx)              *)
(***************************************************************************)
\* Outcome of an asynchronous contract read: a revert, a network error or a
\* decode failure rejects the promise, otherwise it resolves to a uint256.
Rejects == [rejects |-> TRUE]
Resolves(raw) == [rejects |-> FALSE, raw |-> raw]

\* ethers.getAddress accepts a checksummed or a single-case address and
\* throws on a mixed-case address with a wrong checksum and on a malformed one
AddressForms == {"checksummed", "lowercase", "badChecksum", "malformed"}
getAddress(address) ==
  IF address \in {"checksummed", "lowercase"} THEN Returned("checksummed") ELSE Threw

\* String.prototype.toLowerCase() on an address
toLowerCase(address) ==
  IF address \in {"checksummed", "badChecksum"} THEN "lowercase" ELSE address

getChecksummedAddress(address) ==
  IF ~getAddress(address).threw THEN getAddress(address)
  ELSE getAddress(toLowerCase(address))

\* queryOptionalMetric with the formatting moved out of the try block
queryOptionalMetricFormatUncaught(address, call, decimals) ==
  LET tried ==
        IF getChecksummedAddress(address).threw THEN Threw
        ELSE IF call.rejects THEN Threw
        ELSE Returned(call.raw)
  IN IF tried.threw THEN Returned(Null)
     ELSE LET formatted == formatAmount(tried.v, decimals)
          IN IF formatted.threw THEN Threw
             ELSE Returned(Just([raw |-> tried.v, formatted |-> formatted.v]))

OptionalDecimals == 18

\* queryOptionalMetric without its try/catch
queryOptionalMetricUncaught(address, call, decimals) ==
  IF getChecksummedAddress(address).threw THEN Threw
  ELSE IF call.rejects THEN Threw
  ELSE LET formatted == formatAmount(call.raw, decimals)
       IN IF formatted.threw THEN Threw
          ELSE Returned(Just([raw |-> call.raw, formatted |-> formatted.v]))

\* queryOptionalMetric(provider, address, abi, queryFn, decimals), with
\* `call` the outcome of queryFn(contract)
queryOptionalMetric(address, call, decimals) ==
  LET tried ==
        IF getChecksummedAddress(address).threw THEN Threw
        ELSE IF call.rejects THEN Threw
        ELSE LET formatted == formatAmount(call.raw, decimals)
             IN IF formatted.threw THEN Threw
                ELSE Returned(Just([raw |-> call.raw, formatted |-> formatted.v]))
  IN IF tried.threw THEN Returned(Null) ELSE tried

NoMintable == [maxMintable |-> Null, formattedMaxMintable |-> Null]

\* MintableSteps without the clamp: the branch for a positive result is taken
\* whatever the sign
MintableStepsNoClamp(rifCollateralResult, targetCoverageResult, rifPriceMocResult, formattedMinted) ==
  LET ratioDRif == NumDiv(parseFloat(rifCollateralResult.formatted),
                          parseFloat(targetCoverageResult.formatted))
      usdEquivRatioDRif == NumMul(ratioDRif, parseFloat(rifPriceMocResult.formatted))
      mintableUsdrif == NumSub(usdEquivRatioDRif, parseFloat(formattedMinted))
      mintableBigInt == ToBigInt(MathFloor(NumMul(mintableUsdrif, E18)))
  IN IF mintableBigInt.threw THEN Threw
     ELSE Returned([maxMintable |-> Just(mintableBigInt.v),
                    formattedMaxMintable |-> Just(NumToStr(MathFloor(mintableUsdrif)))])

\* MintableSteps with the collateral multiplied by the coverage ratio
MintableStepsTimesCoverage(rifCollateralResult, targetCoverageResult, rifPriceMocResult, formattedMinted) ==
  LET ratioDRif == NumMul(parseFloat(rifCollateralResult.formatted),
                          parseFloat(targetCoverageResult.formatted))
      usdEquivRatioDRif == NumMul(ratioDRif, parseFloat(rifPriceMocResult.formatted))
      mintableUsdrif == NumSub(usdEquivRatioDRif, parseFloat(formattedMinted))
  IN IF NumGtZero(mintableUsdrif)
     THEN LET mintableBigInt == ToBigInt(MathFloor(NumMul(mintableUsdrif, E18)))
          IN IF mintableBigInt.threw THEN Threw
             ELSE Returned([maxMintable |-> Just(mintableBigInt.v),
                            formattedMaxMintable |-> Just(NumToStr(MathFloor(mintableUsdrif)))])
     ELSE Returned([maxMintable |-> Just(SignedBig(FALSE, Zero)),
                    formattedMaxMintable |-> Just(<<"0">>)])

\* Steps 1-7 of the calculation, for the three query results and the
\* formatted minted supply
MintableSteps(rifCollateralResult, targetCoverageResult, rifPriceMocResult, formattedMinted) ==
  LET totalRifCollateral == parseFloat(rifCollateralResult.formatted)
      coverageRatio == parseFloat(targetCoverageResult.formatted)
      ratioDRif == NumDiv(totalRifCollateral, coverageRatio)
      rifPrice == parseFloat(rifPriceMocResult.formatted)
      usdEquivRatioDRif == NumMul(ratioDRif, rifPrice)
      mintedUsdrif == parseFloat(formattedMinted)
      mintableUsdrif == NumSub(usdEquivRatioDRif, mintedUsdrif)
  IN IF NumGtZero(mintableUsdrif)
     THEN LET mintableBigInt == ToBigInt(MathFloor(NumMul(mintableUsdrif, E18)))
          IN IF mintableBigInt.threw THEN Threw
             ELSE Returned([maxMintable |-> Just(mintableBigInt.v),
                            formattedMaxMintable |-> Just(NumToStr(MathFloor(mintableUsdrif)))])
     ELSE Returned([maxMintable |-> Just(SignedBig(FALSE, Zero)),
                    formattedMaxMintable |-> Just(<<"0">>)])

\* whether the calculation asks for the coverage ratio at all
WantsCoverage(rifCollateralResult, rifPriceMocResult, formattedMinted) ==
  ~rifCollateralResult.isNull /\ ~rifPriceMocResult.isNull /\ Len(formattedMinted) > 0

\* the calculation taking a coverage ratio of 1 when none was fetched
MintableCalculationDefaultCoverage(rifCollateralResult, targetCoverageResult, rifPriceMocResult, formattedMinted) ==
  IF WantsCoverage(rifCollateralResult, rifPriceMocResult, formattedMinted)
  THEN LET coverage == IF targetCoverageResult.isNull
                       THEN [raw |-> Shift(One, OptionalDecimals), formatted |-> <<"1">>]
                       ELSE targetCoverageResult.v
           steps == MintableSteps(rifCollateralResult.v, coverage, rifPriceMocResult.v, formattedMinted)
       IN IF steps.threw THEN NoMintable ELSE steps.v
  ELSE NoMintable

\* the values of maxMintable and formattedMaxMintable after the calculation
MintableCalculation(rifCollateralResult, targetCoverageResult, rifPriceMocResult, formattedMinted) ==
  IF WantsCoverage(rifCollateralResult, rifPriceMocResult, formattedMinted)
  THEN IF ~targetCoverageResult.isNull
       THEN LET steps == MintableSteps(rifCollateralResult.v, targetCoverageResult.v,
                                       rifPriceMocResult.v, formattedMinted)
            IN IF steps.threw THEN NoMintable ELSE steps.v
       ELSE NoMintable
  ELSE NoMintable

(***************************************************************************)
(* The metric history store (history.ts)                                   *)
(*                                                                         *)
(* localStorage maps each prefixed key to what is stored under it: nothing,*)
(* the empty string, a text JSON.parse rejects, JSON that is no array, or  *)
(* a JSON array of entries.                                                *)
(***************************************************************************)
MAX_POINTS_PER_METRIC == 100
QUOTA_RETRY_POINTS == 50

\* JSON values
JNum(n) == [type |-> "number", n |-> n]
JStr == [type |-> "string"]
JNull == [type |-> "null"]
JUndefined == [type |-> "undefined"]
JObj(timestamp, value) == [type |-> "object", timestamp |-> timestamp, value |-> value]

\* the typeof operator
typeof(x) == IF x.type = "null" THEN "object" ELSE x.type

\* isNaN of a number read from JSON, which has no NaN
isNaN(x) == FALSE

\* stored items
Absent == [kind |-> "absent"]
EmptyText == [kind |-> "empty"]
Garbage == [kind |-> "garbage"]
NonArray == [kind |-> "nonarray"]
ArrayOf(items) == [kind |-> "array", items |-> items]

\* { timestamp: Date.now(), value: Number(value) }
HistoryPoint(timestamp, value) == JObj(JNum(timestamp), JNum(value))

\* the type guard without the test of the value field
IsValidPointIgnoringValue(point) ==
  /\ typeof(point) = "object"
  /\ point.type # "null"
  /\ typeof(point.timestamp) = "number"

\* the type guard of getMetricHistory's filter
IsValidPoint(point) ==
  /\ typeof(point) = "object"
  /\ point.type # "null"
  /\ typeof(point.timestamp) = "number"
  /\ typeof(point.value) = "number"
  /\ ~isNaN(point.timestamp)
  /\ ~isNaN(point.value)

\* Array.prototype.slice(-n)
LastN(s, n) == IF Len(s) <= n THEN s ELSE SubSeq(s, Len(s) - n + 1, Len(s))

\* Array.prototype.slice(0, n)
FirstN(s, n) == IF Len(s) <= n THEN s ELSE SubSeq(s, 1, n)

\* isLocalStorageAvailable without the probe
isLocalStorageAvailableUnprobed(hasWin, probeOk) == hasWin

\* isLocalStorageAvailable(): there is a window and the probe item can be
\* written and removed
isLocalStorageAvailable(hasWin, probeOk) == hasWin /\ probeOk

\* getMetricHistory without its try/catch
getMetricHistoryUncaught(store, metricKey, available) ==
  IF ~available THEN Returned(<<>>)
  ELSE LET stored == store[metricKey]
       IN IF stored.kind \in {"absent", "empty"} THEN Returned(<<>>)
          ELSE IF stored.kind = "garbage" THEN Threw
          ELSE IF stored.kind # "array" THEN Returned(<<>>)
          ELSE Returned(SelectSeq(stored.items, IsValidPoint))

\* getMetricHistory(metricKey) on the store, `available` being the outcome of
\* its isLocalStorageAvailable(); the outcome of the try block, then the catch
getMetricHistory(store, metricKey, available) ==
  IF ~available THEN Returned(<<>>)
  ELSE LET stored == store[metricKey]
           tried ==
             IF stored.kind \in {"absent", "empty"} THEN Returned(<<>>)
             ELSE IF stored.kind = "garbage" THEN Threw
             ELSE IF stored.kind # "array" THEN Returned(<<>>)
             ELSE Returned(SelectSeq(stored.items, IsValidPoint))
       IN IF tried.threw THEN Returned(<<>>) ELSE tried

\* What the storage does to the calls of one saveMetricHistory: the probes of
\* the three isLocalStorageAvailable() calls and the two setItem calls, each
\* setItem succeeding, failing with QuotaExceededError or failing otherwise
WriteOutcomes == {"ok", "quota", "error"}
StorageEnvs ==
  {e \in [p1 : BOOLEAN, p2 : BOOLEAN, w1 : WriteOutcomes, p3 : BOOLEAN, w2 : WriteOutcomes] :
     \* calls that are not reached are given one fixed outcome
     /\ ~e.p1 => (e.p2 /\ e.w1 = "ok")
     /\ e.w1 # "quota" => (e.p3 /\ e.w2 = "ok")}
Healthy == [p1 |-> TRUE, p2 |-> TRUE, w1 |-> "ok", p3 |-> TRUE, w2 |-> "ok"]

SaveResult(threw, store, writes, warnings) ==
  [threw |-> threw, store |-> store, writes |-> writes, warnings |-> warnings]

SaveFailed == <<"Failed to save metric history:">>
QuotaExceeded == <<"localStorage quota exceeded, clearing old data">>
RetryFailed == <<"Failed to save metric history after quota error:">>

\* QuotaRetry writing the whole log again
QuotaRetryUntruncated(store, metricKey, hasWin, env, writes) ==
  LET existing == getMetricHistory(store, metricKey, isLocalStorageAvailable(hasWin, env.p3))
  IN IF existing.threw THEN SaveResult(FALSE, store, writes, QuotaExceeded \o RetryFailed)
     ELSE IF env.w2 = "ok"
          THEN SaveResult(FALSE, [store EXCEPT ![metricKey] = ArrayOf(existing.v)],
                          Append(writes, existing.v), QuotaExceeded)
          ELSE SaveResult(FALSE, store, Append(writes, existing.v), QuotaExceeded \o RetryFailed)

\* the catch block of saveMetricHistory after setItem failed with a
\* QuotaExceededError: one more setItem, of the last 50 points read again
QuotaRetry(store, metricKey, hasWin, env, writes) ==
  LET existing == getMetricHistory(store, metricKey, isLocalStorageAvailable(hasWin, env.p3))
  IN IF existing.threw THEN SaveResult(FALSE, store, writes, QuotaExceeded \o RetryFailed)
     ELSE LET trimmed == LastN(existing.v, QUOTA_RETRY_POINTS)
          IN IF env.w2 = "ok"
             THEN SaveResult(FALSE, [store EXCEPT ![metricKey] = ArrayOf(trimmed)],
                             Append(writes, trimmed), QuotaExceeded)
             ELSE SaveResult(FALSE, store, Append(writes, trimmed), QuotaExceeded \o RetryFailed)

\* the try block of saveMetricHistory from the second statement on, with
\* `keep` the log it passes to setItem, and its catch block
WriteLog(store, metricKey, keep, hasWin, env) ==
  IF env.w1 = "ok"
  THEN SaveResult(FALSE, [store EXCEPT ![metricKey] = ArrayOf(keep)], <<keep>>, <<>>)
  ELSE IF env.w1 = "quota" THEN QuotaRetry(store, metricKey, hasWin, env, <<keep>>)
  ELSE SaveResult(FALSE, store, <<keep>>, SaveFailed)

\* saveMetricHistory keeping the first 100 points
saveMetricHistoryKeepsOldest(store, metricKey, value, timestamp, hasWin, env) ==
  IF value.isNull \/ ~isLocalStorageAvailable(hasWin, env.p1)
  THEN SaveResult(FALSE, store, <<>>, <<>>)
  ELSE LET existing == getMetricHistory(store, metricKey, isLocalStorageAvailable(hasWin, env.p2))
       IN IF existing.threw THEN SaveResult(FALSE, store, <<>>, SaveFailed)
          ELSE LET newPoint == HistoryPoint(timestamp, value.v)
                   updated == Append(existing.v, newPoint)
                   trimmed == FirstN(updated, MAX_POINTS_PER_METRIC)
               IN WriteLog(store, metricKey, trimmed, hasWin, env)

\* saveMetricHistory dropping the stored points that carry the new timestamp
saveMetricHistoryDeduplicating(store, metricKey, value, timestamp, hasWin, env) ==
  IF value.isNull \/ ~isLocalStorageAvailable(hasWin, env.p1)
  THEN SaveResult(FALSE, store, <<>>, <<>>)
  ELSE LET existing == getMetricHistory(store, metricKey, isLocalStorageAvailable(hasWin, env.p2))
       IN IF existing.threw THEN SaveResult(FALSE, store, <<>>, SaveFailed)
          ELSE LET newPoint == HistoryPoint(timestamp, value.v)
                   IsOther(point) == point.timestamp # newPoint.timestamp
                   updated == Append(SelectSeq(existing.v, IsOther), newPoint)
                   trimmed == LastN(updated, MAX_POINTS_PER_METRIC)
               IN WriteLog(store, metricKey, trimmed, hasWin, env)

\* saveMetricHistory(metricKey, value) at time `timestamp`: the new store, the
\* logs it passed to setItem for the key, the warnings it printed, and
\* whether it threw
saveMetricHistory(store, metricKey, value, timestamp, hasWin, env) ==
  IF value.isNull \/ ~isLocalStorageAvailable(hasWin, env.p1)
  THEN SaveResult(FALSE, store, <<>>, <<>>)
  ELSE LET existing == getMetricHistory(store, metricKey, isLocalStorageAvailable(hasWin, env.p2))
       IN IF existing.threw THEN SaveResult(FALSE, store, <<>>, SaveFailed)
          ELSE LET newPoint == HistoryPoint(timestamp, value.v)
                   updated == Append(existing.v, newPoint)
                   trimmed == LastN(updated, MAX_POINTS_PER_METRIC)
               IN WriteLog(store, metricKey, trimmed, hasWin, env)

\* clearAllHistory(): every prefixed key is removed
clearAllHistory(store, hasWin, probeOk) ==
  IF ~isLocalStorageAvailable(hasWin, probeOk) THEN store
  ELSE [k \in DOMAIN store |-> Absent]

(***************************************************************************)
(* State                                                                   *)
(***************************************************************************)
VARIABLES
  calcIn,     \* the chain's answers to the reads the calculation depends on
  calcOut,    \* what the calculation produced from them
  queryIn,    \* the arguments and the chain's answer of one queryOptionalMetric
  queryOut,   \* what that queryOptionalMetric did
  formatIn,   \* the arguments of one formatAmount
  formatOut,  \* what that formatAmount did
  storage,    \* localStorage: what is stored under each metric's key
  hasWindow,  \* whether there is a window (false when rendered on a server)
  now,        \* Date.now()
  histOp,     \* the last call of the history store: arguments, storage outcomes, result
  offered,    \* the points passed to saveMetricHistory so far, in order
  ops,        \* the number of history-store calls and storage events explored
  cycles,     \* the calls of fetchTokenData so far: position, locals, outcome
  isMounted,  \* isMountedRef.current
  effectOn,   \* the effect has run and not been cleaned up: the interval is set
  tokenData,  \* the tokenData state of App
  refreshingMetrics,  \* the refreshingMetrics state of App
  isInitialLoad,      \* the isInitialLoad state of App
  history,    \* the history state of App
  tornDown,   \* the calls of fetchTokenData that were running at a cleanup of
              \* the effect; null where the cleanups are not followed
  scoreStore, \* api/scores.ts: the in-memory scoreStore of the scores endpoint
  redisScores,\* the entries kept in Redis under the leaderboard, highest score first
  scoreReq,   \* the last request the scores handler was called with
  scoreRes,   \* the response it gave: status, headers, body
  viteRootstockRpc,  \* import.meta.env.VITE_ROOTSTOCK_RPC, null when it is not set
  proxyReq,   \* the last request the RPC proxy was called with
  proxyRes,   \* the response it gave: status and body
  forwarded, \* per request handled by the proxy: the endpoint it called fetch on, if any
  cycle,      \* LightCycleGame: the cycle state, the position of the light cycle
  trail,      \* the trail state: the positions the cycle has left behind
  gameOver,   \* the gameOver state
  gameStarted,   \* the gameStarted state
  directionRef,  \* directionRef.current
  lastMove,   \* the direction of the cycle's last move, null before its first
  ticks       \* the number of timer ticks explored

calcVars == <<calcIn, calcOut>>
queryVars == <<queryIn, queryOut>>
formatVars == <<formatIn, formatOut>>
histVars == <<storage, hasWindow, now, histOp, offered, ops>>
appVars == <<cycles, isMounted, effectOn, tokenData, refreshingMetrics, isInitialLoad, history, tornDown>>
scoreVars == <<scoreStore, redisScores, scoreReq, scoreRes>>
envVars == <<viteRootstockRpc>>
proxyVars == <<proxyReq, proxyRes, forwarded>>
gameVars == <<cycle, trail, gameOver, gameStarted, directionRef, lastMove, ticks>>
sideVars == <<scoreVars, envVars, proxyVars, gameVars>>
vars == <<calcVars, queryVars, formatVars, histVars, appVars, sideVars>>

Pending == [done |-> FALSE]
Done(x) == [done |-> TRUE, result |-> x]

(***************************************************************************)
(* The mintable calculation on its own: the chain answers each of the      *)
(* three optional reads (or rejects it) and reports the minted supply, and *)
(* the calculation is run on the results as fetchTokenData runs it.        *)
(***************************************************************************)
\* amounts with 18 decimals: n * 10^k
Wei(n, k) == Shift(n, k)

ScenarioCollateral == Wei(<<2, 1, 2, 0, 5, 7, 7, 5, 6>>, 18)   \* 212,057,756
ScenarioCoverage == Wei(<<5, 5>>, 17)                          \* 5.5
ScenarioPrice == Wei(<<4, 1, 3>>, 14)                          \* 0.0413
ScenarioMinted == Wei(<<1, 5, 1, 0, 5, 7, 4>>, 18)             \* 1,510,574
ScenarioMintedB == Wei(<<2, 0, 0, 0, 0, 0, 0>>, 18)            \* 2,000,000

CollateralRaws == {Zero, Wei(One, 18), ScenarioCollateral}
CoverageRaws == {Zero, Wei(One, 18), ScenarioCoverage}
PriceRaws == {Zero, Wei(One, 18), ScenarioPrice}
MintedRaws == {Zero, Wei(One, 18), ScenarioMinted, ScenarioMintedB}

Outcomes(raws) == {Rejects} \cup {Resolves(r) : r \in raws}

MetricKeys == {"stRIFSupply", "rifproSupply", "minted", "rifPrice", "rifCollateral", "maxMintable"}

NoOp == [op |-> "none"]

CalcIdle == calcIn = [minted |-> Zero] /\ calcOut = Pending
QueryIdle == queryIn = [address |-> "checksummed"] /\ queryOut = Pending
FormatIdle == formatIn = [amount |-> Zero] /\ formatOut = Pending
HistIdle ==
  /\ storage = [k \in MetricKeys |-> Absent]
  /\ hasWindow = TRUE
  /\ now = 0
  /\ histOp = NoOp
  /\ offered = <<>>
  /\ ops = 0

INITIAL_TOKEN_DATA ==
  [stRIFSupply |-> <<"0">>, formattedStRIFSupply |-> <<"0">>,
   rifproSupply |-> <<"0">>, formattedRifproSupply |-> <<"0">>,
   minted |-> Null, formattedMinted |-> Null,
   rifPrice |-> Null, formattedRifPrice |-> Null,
   rifCollateral |-> Null, formattedRifCollateral |-> Null,
   maxMintable |-> Null, formattedMaxMintable |-> Null,
   symbol |-> "USDRIF", name |-> "USDRIF",
   loading |-> TRUE, error |-> Null, lastUpdated |-> Null]

\* App as rendered for the first time, before its effect has run
AppStart ==
  /\ cycles = <<>>
  /\ isMounted = TRUE
  /\ effectOn = FALSE
  /\ tokenData = INITIAL_TOKEN_DATA
  /\ refreshingMetrics = {}
  /\ isInitialLoad = TRUE
  /\ history = [k \in {} |-> <<>>]

AppIdle == AppStart /\ tornDown = Null

\* the scores endpoint before its first request: a fresh deployment
NoRequest == [method |-> "none"]
ScoreIdle ==
  /\ scoreStore = <<>>
  /\ redisScores = <<>>
  /\ scoreReq = NoRequest
  /\ scoreRes = Pending

\* the build has no VITE_ROOTSTOCK_RPC
EnvIdle == viteRootstockRpc = Null

\* the RPC proxy before its first request
ProxyIdle ==
  /\ proxyReq = NoRequest
  /\ proxyRes = Pending
  /\ forwarded = <<>>

GRID_SIZE == 20

\* LightCycleGame as it is first rendered
GameIdle ==
  /\ cycle = [x |-> GRID_SIZE \div 2, y |-> GRID_SIZE \div 2]
  /\ trail = <<>>
  /\ gameOver = FALSE
  /\ gameStarted = FALSE
  /\ directionRef = "RIGHT"
  /\ lastMove = Null
  /\ ticks = 0

SideIdle == ScoreIdle /\ EnvIdle /\ ProxyIdle /\ GameIdle

CalcInit ==
  /\ calcIn \in [collateral : Outcomes(CollateralRaws),
                 coverage : Outcomes(CoverageRaws),
                 price : Outcomes(PriceRaws),
                 minted : MintedRaws]
  /\ calcOut = Pending
  /\ QueryIdle
  /\ FormatIdle
  /\ HistIdle
  /\ AppIdle
  /\ SideIdle

\* lines 319-402 of fetchTokenData for the answers in calcIn, every config
\* address being a valid one and the minted token having 18 decimals
Calculate ==
  /\ ~calcOut.done
  /\ LET formattedMinted == formatAmount(calcIn.minted, OptionalDecimals).v
         rifPriceMocResult == queryOptionalMetric("lowercase", calcIn.price, OptionalDecimals).v
         rifCollateralResult == queryOptionalMetric("checksummed", calcIn.collateral, OptionalDecimals).v
         targetCoverageResult == queryOptionalMetric("checksummed", calcIn.coverage, OptionalDecimals).v
     IN calcOut' = Done(MintableCalculation(rifCollateralResult, targetCoverageResult,
                                            rifPriceMocResult, formattedMinted))
  /\ UNCHANGED <<calcIn, queryVars, formatVars, histVars, appVars, sideVars>>

CalcNext == Calculate

SpecCalc == CalcInit /\ [][CalcNext]_vars

(***************************************************************************)
(* Claims about the calculation (SpecCalc)                                 *)
(***************************************************************************)
CalcResolved ==
  /\ ~calcIn.collateral.rejects
  /\ ~calcIn.coverage.rejects
  /\ ~calcIn.price.rejects

ZeroMintable ==
  [maxMintable |-> Just(SignedBig(FALSE, Zero)), formattedMaxMintable |-> Just(<<"0">>)]

\* (collateral / coverage) * price <= minted on the 18-decimal amounts, cross
\* multiplied: collateral * price <= minted * coverage, for coverage # 0 (a
\* division by zero gives an infinity or NaN, which is not <= minted)
UsdEquivLeqMinted ==
  /\ calcIn.coverage.raw # Zero
  /\ CmpBig(MulBig(calcIn.collateral.raw, calcIn.price.raw),
            MulBig(calcIn.minted, calcIn.coverage.raw)) <= 0

ScenarioA ==
  calcIn = [collateral |-> Resolves(ScenarioCollateral), coverage |-> Resolves(ScenarioCoverage),
            price |-> Resolves(ScenarioPrice), minted |-> ScenarioMinted]
ScenarioB ==
  calcIn = [collateral |-> Resolves(ScenarioCollateral), coverage |-> Resolves(ScenarioCoverage),
            price |-> Resolves(ScenarioPrice), minted |-> ScenarioMintedB]

StrDigits(str) == [i \in 1..Len(str) |-> DigitOf(str[i])]

\* floor((collateral / coverage) * price - minted) = f for the scenario's
\* numbers 212057756, 55/10, 413/10000 and 1510574, cross multiplied:
\* (f + minted) * 55000 <= 212057756 * 413 < (f + minted + 1) * 55000
IsScenarioAFloor(f) ==
  LET lhs == MulBig(<<2, 1, 2, 0, 5, 7, 7, 5, 6>>, <<4, 1, 3>>)
      low == MulBig(AddBig(f, <<1, 5, 1, 0, 5, 7, 4>>), <<5, 5, 0, 0, 0>>)
      high == MulBig(AddBig(AddBig(f, <<1, 5, 1, 0, 5, 7, 4>>), One), <<5, 5, 0, 0, 0>>)
  IN CmpBig(low, lhs) <= 0 /\ CmpBig(lhs, high) < 0

ScenarioAMatchesFormula ==
  /\ ~calcOut.result.maxMintable.isNull
  /\ ~calcOut.result.formattedMaxMintable.isNull
  /\ ~calcOut.result.maxMintable.v.neg
  /\ calcOut.result.maxMintable.v.mag # Zero
  /\ IsScenarioAFloor(StrDigits(calcOut.result.formattedMaxMintable.v))

QueryRaws == {Zero, <<5>>, Wei(<<1, 2, 0, 3, 4>>, 14)}
QueryDecimals == {-1, 0, 2, 18, 255, 256}

QueryInit ==
  /\ queryIn \in [address : AddressForms, call : Outcomes(QueryRaws), decimals : QueryDecimals]
  /\ queryOut = Pending
  /\ CalcIdle
  /\ FormatIdle
  /\ HistIdle
  /\ AppIdle
  /\ SideIdle

Query ==
  /\ ~queryOut.done
  /\ queryOut' = Done(queryOptionalMetric(queryIn.address, queryIn.call, queryIn.decimals))
  /\ UNCHANGED <<queryIn, calcVars, formatVars, histVars, appVars, sideVars>>

QueryNext == Query

SpecQuery == QueryInit /\ [][QueryNext]_vars

\* something inside the try block throws: the address cannot be normalized,
\* the contract call rejects, or a non-zero amount is formatted with decimals
\* outside 0..255
QueryThrows ==
  \/ queryIn.address = "malformed"
  \/ queryIn.call.rejects
  \/ (queryIn.call.raw # Zero /\ (queryIn.decimals < 0 \/ queryIn.decimals > 255))

\* C4: queryOptionalMetric never throws; it returns null whenever the
\* contract call, the address normalization or the formatting throws, and
\* otherwise the raw value with its formatted string (the decimal string of
\* raw / 10^decimals).
C4_NeverThrows ==
  queryOut.done =>
    /\ ~queryOut.result.threw
    /\ QueryThrows => queryOut.result.v = Null
    /\ ~QueryThrows =>
         /\ ~queryOut.result.v.isNull
         /\ queryOut.result.v.v.raw = queryIn.call.raw
         /\ parseFloat(queryOut.result.v.v.formatted) =
              Fin(FALSE, queryIn.call.raw,
                  Pow10(IF queryIn.call.raw = Zero THEN 0 ELSE queryIn.decimals))

C4_Witness ==
  /\ queryOut.done
  /\ ~queryIn.call.rejects /\ queryIn.call.raw # Zero /\ queryIn.decimals = 256
  /\ queryIn.address = "badChecksum"
  /\ queryOut.result = Returned(Null)

(***************************************************************************)
(* formatAmount on its own: one call for each amount and decimals argument *)
(***************************************************************************)
\* 2^256 - 1, the largest amount a contract returns
MaxUint256 ==
  <<1, 1, 5, 7, 9, 2, 0, 8, 9, 2, 3, 7, 3, 1, 6, 1, 9, 5, 4, 2, 3, 5, 7, 0, 9, 8,
    5, 0, 0, 8, 6, 8, 7, 9, 0, 7, 8, 5, 3, 2, 6, 9, 9, 8, 4, 6, 6, 5, 6, 4, 0, 5,
    6, 4, 0, 3, 9, 4, 5, 7, 5, 8, 4, 0, 0, 7, 9, 1, 3, 1, 2, 9, 6, 3, 9, 9, 3, 5>>

FormatAmounts ==
  {Zero, <<5>>, <<1, 0>>, <<1, 0, 1>>, <<1, 0, 0, 0>>, <<1, 2, 3, 4, 5, 6, 7, 8, 9>>,
   Wei(<<1, 2, 0, 3, 4>>, 14), Wei(One, 18), Wei(<<1, 5>>, 17), ScenarioPrice,
   ScenarioCollateral, AddBig(ScenarioCollateral, One), Pow10(255),
   AddBig(Pow10(255), One), Pow10(256), MaxUint256}
FormatDecimals == {-1, 0, 1, 2, 18, 255, 256}

FormatInit ==
  /\ formatIn \in [amount : FormatAmounts, decimals : FormatDecimals]
  /\ formatOut = Pending
  /\ CalcIdle
  /\ QueryIdle
  /\ HistIdle
  /\ AppIdle
  /\ SideIdle

Format ==
  /\ ~formatOut.done
  /\ formatOut' = Done(formatAmount(formatIn.amount, formatIn.decimals))
  /\ UNCHANGED <<formatIn, calcVars, queryVars, histVars, appVars, sideVars>>

FormatNext == Format

SpecFormat == FormatInit /\ [][FormatNext]_vars

(***************************************************************************)
(* Claims about formatAmount (SpecFormat)                                  *)
(***************************************************************************)
\* C15 as stated: formatAmount raises for decimals -1 and 256 whatever the
\* amount, zero included, and succeeds for decimals 0 and 255.
C15_Original ==
  formatOut.done =>
    /\ formatIn.decimals \in {-1, 256} => formatOut.result.threw
    /\ formatIn.decimals \in {0, 255} => ~formatOut.result.threw

\* formatAmount(0n, 256) returns "0"
C15_ZeroSkipsTheCheck ==
  /\ formatOut.done
  /\ formatIn.amount = Zero
  /\ formatIn.decimals = 256
  /\ formatOut.result = Returned(<<"0">>)

\* the characters of a decimal string before and after its point
WholePart(str) == SubSeq(str, 1, PointAt(str) - 1)
FractionPart(str) == SubSeq(str, PointAt(str) + 1, Len(str))
IsDigits(str) == \A i \in 1..Len(str) : \E k \in 1..10 : DigitChar[k] = str[i]

\* str is digits, or digits "." digits with a fraction not ending in 0
IsTrimmedDecimal(str) ==
  /\ Len(WholePart(str)) >= 1
  /\ IsDigits(WholePart(str))
  /\ IsDigits(FractionPart(str))
  /\ PointAt(str) <= Len(str) =>
       /\ Len(FractionPart(str)) >= 1
       /\ FractionPart(str)[Len(FractionPart(str))] # "0"

\* the value of the decimal string str is amount / 10^decimals: with f
\* fraction digits, its digits read as an integer times 10^decimals are
\* amount times 10^f
HasValue(str, amount, decimals) ==
  LET f == Len(FractionPart(str))
  IN Shift(Norm(StrDigits(WholePart(str) \o FractionPart(str))), decimals) = Shift(amount, f)

\* C16: for decimals in 0..255 formatAmount returns a decimal string whose
\* value is exactly amount / 10^decimals, with no point when the fraction is
\* zero and no fraction ending in 0; for amount 0 it returns "0".
C16_FormatExact ==
  (formatOut.done /\ formatIn.decimals \in 0..255) =>
    /\ ~formatOut.result.threw
    /\ IsTrimmedDecimal(formatOut.result.v)
    /\ HasValue(formatOut.result.v, formatIn.amount, formatIn.decimals)
    /\ formatIn.amount = Zero => formatOut.result.v = <<"0">>

C16_Witness ==
  /\ formatOut.done
  /\ formatIn.amount = ScenarioPrice
  /\ formatIn.decimals = 18
  /\ formatOut.result = Returned(<<"0", ".", "0", "4", "1", "3">>)

(***************************************************************************)
(* The history store on its own.  One metric's log is filled from an empty *)
(* store by saveMetricHistory calls one tick apart; at the log lengths of  *)
(* ProbedLengths the store is also called with every outcome of the        *)
(* storage calls, read, cleared, and its item edited from outside.         *)
(***************************************************************************)
MaxAppends == 150
MaxOps == 2
HistKey == "rifPrice"
ProbedLengths == {0, 1, 99, 100, MaxAppends}

HistInit ==
  /\ storage = [k \in MetricKeys |-> Absent]
  /\ hasWindow \in BOOLEAN
  /\ now = 0
  /\ histOp = NoOp
  /\ offered = <<>>
  /\ ops = 0
  /\ CalcIdle
  /\ QueryIdle
  /\ FormatIdle
  /\ AppIdle
  /\ SideIdle

SaveOp(key, value, env, res) ==
  [op |-> "save", key |-> key, value |-> value, timestamp |-> now, env |-> env,
   before |-> storage[key], threw |-> res.threw, writes |-> res.writes,
   warnings |-> res.warnings, result |-> <<>>]

\* the next refresh, one tick after the last, saves the next sample
FillAppend ==
  /\ ops = 0
  /\ hasWindow
  /\ Len(offered) < MaxAppends
  /\ LET value == Just(Len(offered) + 1)
         res == saveMetricHistory(storage, HistKey, value, now, hasWindow, Healthy)
     IN /\ storage' = res.store
        /\ histOp' = SaveOp(HistKey, value, Healthy, res)
        /\ offered' = Append(offered, HistoryPoint(now, value.v))
  /\ now' = now + 1
  /\ UNCHANGED <<hasWindow, ops, calcVars, queryVars, formatVars, appVars, sideVars>>

Probing == Len(offered) \in ProbedLengths /\ ops < MaxOps

\* saveMetricHistory(key, value), the storage answering as in env
Save(value, env) ==
  /\ Probing
  /\ LET res == saveMetricHistory(storage, HistKey, value, now, hasWindow, env)
     IN /\ storage' = res.store
        /\ histOp' = SaveOp(HistKey, value, env, res)
  /\ ops' = ops + 1
  /\ UNCHANGED <<hasWindow, now, offered, calcVars, queryVars, formatVars, appVars, sideVars>>

\* getMetricHistory(key)
Get(probeOk) ==
  /\ Probing
  /\ histOp' = [op |-> "get", key |-> HistKey, value |-> Null, timestamp |-> now,
                env |-> [Healthy EXCEPT !.p1 = probeOk], before |-> storage[HistKey],
                threw |-> getMetricHistory(storage, HistKey,
                                           isLocalStorageAvailable(hasWindow, probeOk)).threw,
                writes |-> <<>>, warnings |-> <<>>,
                result |-> ValueOr(getMetricHistory(storage, HistKey,
                                                    isLocalStorageAvailable(hasWindow, probeOk)),
                                   <<>>)]
  /\ ops' = ops + 1
  /\ UNCHANGED <<storage, hasWindow, now, offered, calcVars, queryVars, formatVars, appVars, sideVars>>

\* clearAllHistory()
Clear(probeOk) ==
  /\ Probing
  /\ storage' = clearAllHistory(storage, hasWindow, probeOk)
  /\ histOp' = [op |-> "clear", key |-> HistKey, value |-> Null, timestamp |-> now,
                env |-> [Healthy EXCEPT !.p1 = probeOk], before |-> storage[HistKey],
                threw |-> FALSE, writes |-> <<>>, warnings |-> <<>>, result |-> <<>>]
  /\ ops' = ops + 1
  /\ UNCHANGED <<hasWindow, now, offered, calcVars, queryVars, formatVars, appVars, sideVars>>

\* entries that are no history points: the value missing, a string as
\* timestamp, null as value (what a NaN is serialized to), a null entry
BadEntries == {JObj(JNum(0), JUndefined), JObj(JStr, JNum(0)), JObj(JNum(0), JNull), JNull}

StoredItems(item) == IF item.kind = "array" THEN item.items ELSE <<>>

\* the item is edited from outside (by hand, by another script) or was
\* written partially
Tamper(item) ==
  /\ Probing
  /\ hasWindow
  /\ storage' = [storage EXCEPT ![HistKey] = item]
  /\ histOp' = [op |-> "tamper", key |-> HistKey, value |-> Null, timestamp |-> now,
                env |-> Healthy, before |-> storage[HistKey],
                threw |-> FALSE, writes |-> <<>>, warnings |-> <<>>, result |-> <<>>]
  /\ ops' = ops + 1
  /\ UNCHANGED <<hasWindow, now, offered, calcVars, queryVars, formatVars, appVars, sideVars>>

\* the clock advances between two calls
Tick ==
  /\ Probing
  /\ now' = now + 1
  /\ ops' = ops + 1
  /\ UNCHANGED <<storage, hasWindow, histOp, offered, calcVars, queryVars, formatVars, appVars, sideVars>>

HistNext ==
  \/ FillAppend
  \/ \E env \in StorageEnvs : Save(Just(Len(offered) + 1), env)
  \/ Save(Null, Healthy)
  \/ \E probeOk \in BOOLEAN : Get(probeOk)
  \/ \E probeOk \in BOOLEAN : Clear(probeOk)
  \/ \E item \in {Garbage, NonArray, EmptyText} : Tamper(item)
  \/ \E bad \in BadEntries : Tamper(ArrayOf(<<bad>> \o StoredItems(storage[HistKey])))
  \/ \E bad \in BadEntries : Tamper(ArrayOf(StoredItems(storage[HistKey]) \o <<bad>>))
  \/ Tick

SpecHist == HistInit /\ [][HistNext]_vars

(***************************************************************************)
(* Claims about the history store (SpecHist)                               *)
(***************************************************************************)
\* an entry that is a history point: an object with a number as timestamp
\* and a number as value
IsHistoryPoint(e) ==
  e.type = "object" /\ e.timestamp.type = "number" /\ e.value.type = "number"

HasBadEntry(item) ==
  item.kind = "array" /\ \E i \in 1..Len(item.items) : ~IsHistoryPoint(item.items[i])

\* the history points among the entries of a stored item, in their order
PointsOf(item) == SelectSeq(StoredItems(item), IsHistoryPoint)

\* s is what is left of t after removing some of its first elements
IsSuffixOf(s, t) ==
  Len(s) <= Len(t) /\ \A i \in 1..Len(s) : s[i] = t[Len(t) - Len(s) + i]

\* the last save reached its first setItem, and what it offered
SaveWrote == histOp.op = "save" /\ ~histOp.value.isNull /\ hasWindow /\ histOp.env.p1
SavedPoint == HistoryPoint(histOp.timestamp, histOp.value.v)

\* C6: every stored log holds at most 100 points, and after n appends to an
\* empty log the log is the last min(n, 100) points appended, in order: 100
\* points, the 51st to the 150th, after 150 appends.
C6_HistoryBounded ==
  /\ \A k \in MetricKeys : Len(PointsOf(storage[k])) <= 100
  /\ (ops = 0 /\ hasWindow) =>
       LET log == StoredItems(storage[HistKey])
           n == Len(offered)
           kept == IF n <= 100 THEN n ELSE 100
       IN /\ Len(log) = kept
          /\ \A i \in 1..kept : log[i] = offered[n - kept + i]

C6_Witness ==
  /\ ops = 0
  /\ Len(offered) = 150
  /\ Len(StoredItems(storage[HistKey])) = 100
  /\ StoredItems(storage[HistKey])[1] = offered[51]
  /\ StoredItems(storage[HistKey])[100] = offered[150]

\* C7: a save leaves the log in append order: what it stores is the points
\* stored before with only oldest ones removed, none modified or reordered,
\* followed by the new point if it stored it; a save whose storage calls all
\* succeed stores the new point last and drops nothing but the points beyond
\* the last 100, whatever the timestamps (equal timestamps are both kept).
C7_AppendOrder ==
  histOp.op = "save" =>
    LET old == PointsOf(histOp.before)
        log == StoredItems(storage[histOp.key])
    IN /\ \/ storage[histOp.key] = histOp.before
          \/ IsSuffixOf(log, old)
          \/ /\ Len(log) >= 1
             /\ log[Len(log)] = SavedPoint
             /\ IsSuffixOf(SubSeq(log, 1, Len(log) - 1), old)
       /\ (SaveWrote /\ histOp.env = Healthy) =>
            /\ Len(log) = (IF Len(old) + 1 <= 100 THEN Len(old) + 1 ELSE 100)
            /\ log[Len(log)] = SavedPoint
            /\ IsSuffixOf(SubSeq(log, 1, Len(log) - 1), old)

C7_Witness ==
  /\ SaveWrote /\ histOp.env = Healthy
  /\ Len(StoredItems(storage[HistKey])) >= 2
  /\ LET log == StoredItems(storage[HistKey])
     IN /\ log[Len(log)] = SavedPoint
        /\ log[Len(log) - 1].timestamp = log[Len(log)].timestamp

\* the last call was a getMetricHistory that found the storage available
GetRead == histOp.op = "get" /\ hasWindow /\ histOp.env.p1

\* C8 as stated: reading an array with an entry that is no history point
\* returns [] and does not raise.
C8_Original ==
  (GetRead /\ HasBadEntry(histOp.before)) => (~histOp.threw /\ histOp.result = <<>>)

\* C8 (amended): reading an array with an entry that is no history point
\* does not raise and returns the entries that are history points, in their
\* order, without the others; [] only when no entry is a history point.
C8_InvalidEntriesFiltered ==
  (GetRead /\ HasBadEntry(histOp.before)) =>
    /\ ~histOp.threw
    /\ histOp.result = PointsOf(histOp.before)

C8_Witness ==
  /\ GetRead
  /\ HasBadEntry(histOp.before)
  /\ \E i \in 1..Len(histOp.before.items) : histOp.before.items[i] = JObj(JNum(0), JUndefined)
  /\ Len(histOp.result) = 100

\* C9: getMetricHistory never raises; an item that does not parse or is no
\* array reads as the empty log, and a save on such an item whose storage
\* calls succeed stores a log of the new point alone.
C9_CorruptReadsEmpty ==
  /\ histOp.op = "get" => ~histOp.threw
  /\ (GetRead /\ histOp.before.kind \in {"garbage", "nonarray", "empty"}) => histOp.result = <<>>
  /\ (SaveWrote /\ histOp.env = Healthy /\ histOp.before.kind \in {"garbage", "nonarray", "empty"}) =>
       /\ ~histOp.threw
       /\ storage[histOp.key] = ArrayOf(<<SavedPoint>>)

C9_Witness ==
  /\ SaveWrote /\ histOp.env = Healthy
  /\ histOp.before = Garbage
  /\ storage[HistKey] = ArrayOf(<<SavedPoint>>)

\* C10: a save whose setItem fails with QuotaExceededError calls setItem
\* exactly once more, with at most 50 points, the newest of the stored ones;
\* if that fails too, nothing is raised and the stored item is what it was
\* before the save.  Another failure of the first setItem is not retried.
C10_QuotaRetry ==
  SaveWrote =>
    /\ ~histOp.threw
    /\ histOp.env.w1 = "quota" =>
         /\ Len(histOp.writes) = 2
         /\ Len(histOp.writes[2]) <= 50
         /\ IsSuffixOf(histOp.writes[2], PointsOf(histOp.before))
         /\ histOp.env.w2 # "ok" => storage[histOp.key] = histOp.before
    /\ histOp.env.w1 # "quota" => Len(histOp.writes) = 1

C10_Witness ==
  /\ SaveWrote
  /\ histOp.env.w1 = "quota" /\ histOp.env.w2 = "quota" /\ histOp.env.p3
  /\ Len(PointsOf(histOp.before)) = 100
  /\ Len(histOp.writes[2]) = 50
  /\ storage[HistKey] = histOp.before

\* the last call found no storage: there is no window, or the probe of its
\* isLocalStorageAvailable() failed
CallUnavailable ==
  histOp.op \in {"save", "get", "clear"} /\ ~(hasWindow /\ histOp.env.p1)

\* C11: a saveMetricHistory, getMetricHistory or clearAllHistory that finds no
\* storage (no window, or the probe fails) does nothing: it does not raise,
\* passes nothing to setItem, prints no warning, leaves every stored item as
\* it was, and getMetricHistory returns [].
C11_UnavailableNoOp ==
  CallUnavailable =>
    /\ ~histOp.threw
    /\ histOp.writes = <<>>
    /\ histOp.warnings = <<>>
    /\ histOp.result = <<>>
    /\ storage[histOp.key] = histOp.before
    /\ \A k \in MetricKeys \ {histOp.key} : storage[k] = Absent

C11_Witness ==
  /\ CallUnavailable
  /\ histOp.op = "save" /\ ~histOp.value.isNull
  /\ hasWindow /\ ~histOp.env.p1
  /\ Len(PointsOf(histOp.before)) = 100
  /\ storage[HistKey] = histOp.before

\* C25: after a save whose first setItem failed with QuotaExceededError and
\* whose second setItem succeeded, the stored log has at most 50 points and
\* its last point is the sample of the save.
C25_Original ==
  (SaveWrote /\ histOp.env.w1 = "quota" /\ histOp.env.w2 = "ok") =>
    LET log == StoredItems(storage[histOp.key])
    IN /\ Len(log) <= QUOTA_RETRY_POINTS
       /\ Len(log) >= 1
       /\ log[Len(log)] = SavedPoint

(***************************************************************************)
(* The refresh cycles of App (fetchTokenData)                              *)
(*                                                                         *)
(* A cycle is one call of fetchTokenData.  It runs from one await to the   *)
(* next in one step; between two steps the other cycles, the interval, the *)
(* user and the unmounting of App may act.  The chain answers each call    *)
(* when it settles.  localStorage is that of a browser, and works.         *)
(***************************************************************************)
MaxCycles == 2      \* calls of fetchTokenData explored
MaxInFlight == 2    \* of which running at the same time

ROOTSTOCK_RPC_ALTERNATIVES ==
  <<"https://public-node.rsk.co", "https://rsk.publicnode.com", "https://rpc.ankr.com/rsk">>

\* CONFIG.ROOTSTOCK_RPC: import.meta.env.VITE_ROOTSTOCK_RPC || the default
ROOTSTOCK_RPC ==
  IF ~viteRootstockRpc.isNull /\ viteRootstockRpc.v # ""
  THEN viteRootstockRpc.v
  ELSE "https://public-node.rsk.co"

\* `array || fallback`: an array is truthy, also an empty one
ArrayOr(array, fallback) == array

\* the endpoints of getWorkingProvider
endpoints == ArrayOr(ROOTSTOCK_RPC_ALTERNATIVES, <<ROOTSTOCK_RPC>>)

\* the form of the addresses in CONFIG
USDRIF_ADDRESS == "checksummed"
RIFPRO_ADDRESS == "checksummed"
USDRIF_OLD_ADDRESS == "checksummed"
RIF_PRICE_FEED_MOC == "lowercase"
RIF_PRICE_FEED_RLABS == "lowercase"
MOC_V2_CORE == "checksummed"

\* the order of the entries of metricKeys
MetricOrder == <<"stRIFSupply", "rifproSupply", "minted", "rifPrice", "rifCollateral", "maxMintable">>

\* the isInitialLoad that fetchTokenData reads: the callback is memoized on
\* [getChecksummedAddress], which never changes, so it is the one of the
\* first render
ClosureIsInitialLoad == TRUE

\* a call that starts its probing after the first endpoint once a call on
\* record has found the first endpoint failing
NewCycleSkippingFailed ==
  [pc |-> "provider", outcome |-> "running",
   endpoint |-> IF \E j \in 1..Len(cycles) :
                     Len(cycles[j].probes) >= 1 /\ ~cycles[j].probes[1].ok
                THEN 2 ELSE 1,
   stage |-> "running",
   probes |-> <<>>, provider |-> Null,
   required |-> Null, calls |-> [k \in {} |-> Rejects],
   formattedStRIFSupply |-> <<>>, formattedRifproSupply |-> <<>>, formattedMinted |-> <<>>,
   rifPriceResult |-> Null, rifPriceMocResult |-> Null, rifCollateralResult |-> Null,
   targetCoverageResult |-> Null,
   maxMintable |-> Null, formattedMaxMintable |-> Null,
   saved |-> <<>>, applied |-> Null]

\* the locals of a call of fetchTokenData at its first await
NewCycle ==
  [pc |-> "provider", outcome |-> "running",
   endpoint |-> 1,    \* the endpoint getWorkingProvider is trying, 0 once it returned
   \* the probes of getWorkingProvider so far, endpoint and outcome, and the
   \* endpoint of the provider it returned; kept until the required calls,
   \* which are made on that provider, have settled
   probes |-> <<>>, provider |-> Null,
   stage |-> "running",   \* the await after which the call returned
   required |-> Null, calls |-> [k \in {} |-> Rejects],
   formattedStRIFSupply |-> <<>>, formattedRifproSupply |-> <<>>, formattedMinted |-> <<>>,
   rifPriceResult |-> Null, rifPriceMocResult |-> Null, rifCollateralResult |-> Null,
   targetCoverageResult |-> Null,
   maxMintable |-> Null, formattedMaxMintable |-> Null,
   saved |-> <<>>, applied |-> Null]

\* a call that has returned; of its locals the record keeps those of a call
\* that ran to its end, and the probes of one that got no provider
Finished(c, outcome) ==
  IF outcome = "applied"
  THEN [c EXCEPT !.pc = "done", !.outcome = outcome, !.stage = c.pc]
  ELSE [NewCycle EXCEPT !.pc = "done", !.outcome = outcome, !.stage = c.pc,
                        !.probes = IF c.pc = "provider" THEN c.probes ELSE <<>>]

\* what the chain may answer
\* (a decimals() of 256 is beyond what formatAmount accepts)
RequiredResolved ==
  [rejects |-> FALSE,
   stRIFSupply |-> Wei(<<7>>, 18), stRIFDecimalsRaw |-> OptionalDecimals,
   rifproSupply |-> Wei(<<3>>, 18), rifproDecimalsRaw |-> OptionalDecimals,
   oldUSDRIFSupply |-> ScenarioMinted, oldUSDRIFDecimalsRaw |-> OptionalDecimals,
   name |-> "USDRIF", symbol |-> "USDRIF"]
RequiredAnswers ==
  {Rejects, RequiredResolved, [RequiredResolved EXCEPT !.rifproDecimalsRaw = MaxDecimals + 1]}
DisplayPriceAnswers == Outcomes({Zero})
MocPriceAnswers == Outcomes({Wei(One, 18)})
CollateralAnswers == Outcomes({ScenarioCollateral})
CoverageAnswers == Outcomes({Wei(One, 18), Wei(<<1, 0, 0, 0>>, 18)})   \* 1 and 1000: the second leaves no capacity

RpcError == "could not coalesce error"
NoProvider == "Unable to connect to any RSK RPC endpoint. Please check your network connection or configure VITE_ROOTSTOCK_RPC environment variable."
InvalidDecimals == "Invalid decimals value"

InFlight == Cardinality({i \in 1..Len(cycles) : cycles[i].pc # "done"})
MayStart == Len(cycles) < MaxCycles /\ InFlight < MaxInFlight

\* setHistory({...}) of the six logs read from the store
ReadHistory(store) == [k \in MetricKeys |-> getMetricHistory(store, k, TRUE).v]

\* a JavaScript truthiness test of a bigint and of a string
TruthyBig(b) == b # Zero
TruthyStr(str) == Len(str) > 0

\* the metricKeys object of fetchTokenData for the locals c
metricKeys(c) ==
  [stRIFSupply |-> Just(parseFloat(c.formattedStRIFSupply)),
   rifproSupply |-> Just(parseFloat(c.formattedRifproSupply)),
   minted |-> Just(parseFloat(c.formattedMinted)),
   rifPrice |-> IF ~c.rifPriceResult.isNull /\ TruthyStr(c.rifPriceResult.v.formatted)
                THEN Just(parseFloat(c.rifPriceResult.v.formatted)) ELSE Null,
   rifCollateral |-> IF ~c.rifCollateralResult.isNull /\ TruthyStr(c.rifCollateralResult.v.formatted)
                     THEN Just(parseFloat(c.rifCollateralResult.v.formatted)) ELSE Null,
   maxMintable |-> IF ~c.formattedMaxMintable.isNull /\ TruthyStr(c.formattedMaxMintable.v)
                   THEN Just(parseFloat(c.formattedMaxMintable.v)) ELSE Null]

\* the test of the save loop written as a truthiness test of the value
IsSavedTruthy(value) == ~value.isNull /\ value.v.kind # "nan" /\ ~IsZeroNum(value.v)

\* the entries of metricKeys that are passed to saveMetricHistory
IsSaved(value) == ~value.isNull /\ value.v.kind # "nan"
SavedKeys(values) == SelectSeq(MetricOrder, LAMBDA k : IsSaved(values[k]))

\* the saves writing a log of the new point alone
RECURSIVE SaveEachOverwriting(_, _, _, _)
SaveEachOverwriting(store, keys, values, timestamp) ==
  IF keys = <<>> THEN store
  ELSE SaveEachOverwriting(
         [store EXCEPT ![Head(keys)] = ArrayOf(<<HistoryPoint(timestamp, values[Head(keys)].v)>>)],
         Tail(keys), values, timestamp)

\* Object.entries(metricKeys).forEach(...): the store after the saves
RECURSIVE SaveEach(_, _, _, _)
SaveEach(store, keys, values, timestamp) ==
  IF keys = <<>> THEN store
  ELSE SaveEach(saveMetricHistory(store, Head(keys), values[Head(keys)], timestamp, TRUE, Healthy).store,
                Tail(keys), values, timestamp)

\* the object passed to setTokenData at the end of a cycle with locals c
FetchedTokenData(c, date) ==
  [stRIFSupply |-> ToStr(c.required.v.stRIFSupply),
   formattedStRIFSupply |-> c.formattedStRIFSupply,
   rifproSupply |-> ToStr(c.required.v.rifproSupply),
   formattedRifproSupply |-> c.formattedRifproSupply,
   minted |-> Just(ToStr(c.required.v.oldUSDRIFSupply)),
   formattedMinted |-> Just(c.formattedMinted),
   rifPrice |-> IF ~c.rifPriceResult.isNull /\ TruthyBig(c.rifPriceResult.v.raw)
                THEN Just(ToStr(c.rifPriceResult.v.raw)) ELSE Null,
   formattedRifPrice |-> IF ~c.rifPriceResult.isNull /\ TruthyStr(c.rifPriceResult.v.formatted)
                         THEN Just(c.rifPriceResult.v.formatted) ELSE Null,
   rifCollateral |-> IF ~c.rifCollateralResult.isNull /\ TruthyBig(c.rifCollateralResult.v.raw)
                     THEN Just(ToStr(c.rifCollateralResult.v.raw)) ELSE Null,
   formattedRifCollateral |-> IF ~c.rifCollateralResult.isNull /\ TruthyStr(c.rifCollateralResult.v.formatted)
                              THEN Just(c.rifCollateralResult.v.formatted) ELSE Null,
   maxMintable |-> IF ~c.maxMintable.isNull /\ TruthyBig(c.maxMintable.v.mag)
                   THEN Just(SignedToStr(c.maxMintable.v)) ELSE Null,
   formattedMaxMintable |-> c.formattedMaxMintable,
   symbol |-> c.required.v.symbol, name |-> c.required.v.name,
   loading |-> FALSE, error |-> Null, lastUpdated |-> Just(date)]

AppOnly == UNCHANGED <<calcVars, queryVars, formatVars, sideVars, hasWindow, histOp, offered, ops>>

\* fetchTokenData up to its first await, with isMountedRef.current as given
StartCycle(mounted) ==
  IF ~mounted
  THEN /\ cycles' = Append(cycles, Finished([NewCycle EXCEPT !.pc = "start"], "skipped"))
       /\ UNCHANGED <<tokenData, refreshingMetrics>>
  ELSE /\ cycles' = Append(cycles, NewCycle)
       /\ refreshingMetrics' = IF ~ClosureIsInitialLoad THEN MetricKeys ELSE refreshingMetrics
       /\ tokenData' = [tokenData EXCEPT !.loading = TRUE, !.error = Null]

\* the effect of App runs: on mount, and again after a cleanup
Mount ==
  /\ ~effectOn
  /\ MayStart
  /\ isMounted' = TRUE
  /\ history' = ReadHistory(storage)
  /\ effectOn' = TRUE
  /\ StartCycle(TRUE)
  /\ UNCHANGED <<isInitialLoad, storage, now, tornDown>>
  /\ AppOnly

\* the calls cleaned up so far with those running now, and without call i
CleanedUp ==
  IF tornDown.isNull THEN Null
  ELSE Just(tornDown.v \cup {i \in 1..Len(cycles) : cycles[i].pc # "done"})
Forgotten(i) == IF tornDown.isNull THEN Null ELSE Just(tornDown.v \ {i})

\* the cleanup of the effect
Unmount ==
  /\ effectOn
  /\ isMounted' = FALSE
  /\ effectOn' = FALSE
  /\ tornDown' = CleanedUp
  /\ UNCHANGED <<cycles, tokenData, refreshingMetrics, isInitialLoad, history, storage, now>>
  /\ AppOnly

\* the interval fires
IntervalTick ==
  /\ effectOn
  /\ MayStart
  /\ StartCycle(isMounted)
  /\ UNCHANGED <<isMounted, effectOn, isInitialLoad, history, storage, now, tornDown>>
  /\ AppOnly

\* the user clicks "Refresh Now" or "Retry"
RefreshClick ==
  /\ effectOn
  /\ ~(isInitialLoad /\ tokenData.loading)
  /\ MayStart
  /\ StartCycle(isMounted)
  /\ UNCHANGED <<isMounted, effectOn, isInitialLoad, history, storage, now, tornDown>>
  /\ AppOnly

Running(i, pc) == i \in 1..Len(cycles) /\ cycles[i].pc = pc

\* the catch block putting tokenData back to its initial values
CatchResetting(i, c, message) ==
  /\ cycles' = [cycles EXCEPT ![i] = Finished(c, "error")]
  /\ IF isMounted
     THEN /\ tokenData' = [INITIAL_TOKEN_DATA EXCEPT !.loading = FALSE, !.error = Just(message)]
          /\ refreshingMetrics' = {}
          /\ isInitialLoad' = IF ClosureIsInitialLoad THEN FALSE ELSE isInitialLoad
     ELSE UNCHANGED <<tokenData, refreshingMetrics, isInitialLoad>>
  /\ UNCHANGED <<storage, now, history>>
  /\ tornDown' = Forgotten(i)

\* the catch block setting the error and leaving loading as it is
CatchKeepsLoading(i, c, message) ==
  /\ cycles' = [cycles EXCEPT ![i] = Finished(c, "error")]
  /\ IF isMounted
     THEN /\ tokenData' = [tokenData EXCEPT !.error = Just(message)]
          /\ refreshingMetrics' = {}
          /\ isInitialLoad' = IF ClosureIsInitialLoad THEN FALSE ELSE isInitialLoad
     ELSE UNCHANGED <<tokenData, refreshingMetrics, isInitialLoad>>
  /\ UNCHANGED <<storage, now, history>>
  /\ tornDown' = Forgotten(i)

\* the catch block of fetchTokenData in cycle i with locals c
Catch(i, c, message) ==
  /\ cycles' = [cycles EXCEPT ![i] = Finished(c, "error")]
  /\ IF isMounted
     THEN /\ tokenData' = [tokenData EXCEPT !.loading = FALSE, !.error = Just(message)]
          /\ refreshingMetrics' = {}
          /\ isInitialLoad' = IF ClosureIsInitialLoad THEN FALSE ELSE isInitialLoad
     ELSE UNCHANGED <<tokenData, refreshingMetrics, isInitialLoad>>
  /\ UNCHANGED <<storage, now, history>>
  /\ tornDown' = Forgotten(i)

\* the early return of a cycle that finds App unmounted
Return(i, c) ==
  /\ cycles' = [cycles EXCEPT ![i] = Finished(c, "unmounted")]
  /\ tornDown' = Forgotten(i)
  /\ UNCHANGED <<tokenData, refreshingMetrics, isInitialLoad, storage, now, history>>

\* the cycle goes on to its next await
Continue(i, c) ==
  /\ cycles' = [cycles EXCEPT ![i] = c]
  /\ UNCHANGED <<tokenData, refreshingMetrics, isInitialLoad, storage, now, history, tornDown>>

\* the end of fetchTokenData without the final mount check
FinishUnchecked(i, locals) ==
  \E c \in {locals} : \E values \in {metricKeys(c)}, fetched \in {FetchedTokenData(c, now)} :
     /\ storage' = SaveEach(storage, SavedKeys(values), values, now)
     /\ now' = now + 1
     /\ UNCHANGED tornDown
     /\ tokenData' = fetched
     /\ history' = ReadHistory(storage')
     /\ refreshingMetrics' = {}
     /\ isInitialLoad' = IF ClosureIsInitialLoad THEN FALSE ELSE isInitialLoad
     /\ cycles' = [cycles EXCEPT ![i] =
          [Finished(c, "applied") EXCEPT !.saved = SavedKeys(values), !.applied = Just(fetched)]]

\* the end of fetchTokenData discarding the results of a call when a call
\* that started after it has already set its own
FinishDiscardingStale(i, c) ==
  IF ~isMounted THEN Return(i, c)
  ELSE IF \E k \in (i + 1)..Len(cycles) : cycles[k].outcome = "applied"
  THEN /\ cycles' = [cycles EXCEPT ![i] = Finished(c, "stale")]
       /\ tornDown' = Forgotten(i)
       /\ UNCHANGED <<tokenData, refreshingMetrics, isInitialLoad, storage, now, history>>
  ELSE \E values \in {metricKeys(c)}, fetched \in {FetchedTokenData(c, now)} :
          /\ storage' = SaveEach(storage, SavedKeys(values), values, now)
          /\ now' = now + 1
          /\ UNCHANGED tornDown
          /\ tokenData' = fetched
          /\ history' = ReadHistory(storage')
          /\ refreshingMetrics' = {}
          /\ isInitialLoad' = IF ClosureIsInitialLoad THEN FALSE ELSE isInitialLoad
          /\ cycles' = [cycles EXCEPT ![i] =
               [Finished(c, "applied") EXCEPT !.saved = SavedKeys(values), !.applied = Just(fetched)]]

\* fetchTokenData from the final mount check to its end, all results in the
\* given locals
Finish(i, locals) ==
  \E c \in {locals} :
    IF ~isMounted THEN Return(i, c)
    ELSE \E values \in {metricKeys(c)}, fetched \in {FetchedTokenData(c, now)} :
            \E saved \in {SaveEach(storage, SavedKeys(values), values, now)} :
              /\ storage' = saved
              /\ now' = now + 1
              /\ UNCHANGED tornDown
              /\ tokenData' = fetched
              /\ history' = ReadHistory(saved)
              /\ refreshingMetrics' = {}
              /\ isInitialLoad' = IF ClosureIsInitialLoad THEN FALSE ELSE isInitialLoad
              /\ cycles' = [cycles EXCEPT ![i] =
                   [Finished(c, "applied") EXCEPT !.saved = SavedKeys(values), !.applied = Just(fetched)]]

\* the locals c after the probe of the endpoint being tried settled
Probed(c, ok) ==
  [c EXCEPT !.probes = Append(@, [endpoint |-> endpoints[c.endpoint], ok |-> ok])]

\* getWorkingProvider giving up at the first probe that fails
ProviderProbeNoFallback(i, ok) ==
  /\ Running(i, "provider")
  /\ LET c == Probed(cycles[i], ok)
     IN IF ok
        THEN Continue(i, [c EXCEPT !.pc = "required", !.endpoint = 0,
                                   !.provider = Just(endpoints[c.endpoint])])
        ELSE Catch(i, c, NoProvider)
  /\ UNCHANGED <<isMounted, effectOn>>
  /\ AppOnly

\* await provider.getBlockNumber() of getWorkingProvider settles
ProviderProbe(i, ok) ==
  /\ Running(i, "provider")
  /\ LET c == Probed(cycles[i], ok)
     IN IF ok
        THEN IF \/ getChecksummedAddress(USDRIF_ADDRESS).threw
                \/ getChecksummedAddress(RIFPRO_ADDRESS).threw
                \/ getChecksummedAddress(USDRIF_OLD_ADDRESS).threw
             THEN Catch(i, c, "invalid address")
             ELSE Continue(i, [c EXCEPT !.pc = "required", !.endpoint = 0,
                                        !.provider = Just(endpoints[c.endpoint])])
        ELSE IF c.endpoint < Len(endpoints)
             THEN Continue(i, [c EXCEPT !.endpoint = c.endpoint + 1])
             ELSE Catch(i, c, NoProvider)
  /\ UNCHANGED <<isMounted, effectOn>>
  /\ AppOnly

\* the required calls settle and a supply that formatAmount refuses is shown
\* as "0"
RequiredSettleSwallowing(i, answer) ==
  /\ Running(i, "required")
  /\ LET c == cycles[i]
     IN IF answer.rejects THEN Catch(i, c, RpcError)
        ELSE IF ~isMounted THEN Return(i, c)
        ELSE Continue(i, [c EXCEPT !.pc = "rifPrice",
                                   !.probes = <<>>, !.provider = Null,
                                   !.required = Just(answer),
                                   !.formattedStRIFSupply = ValueOr(formatAmount(answer.stRIFSupply, answer.stRIFDecimalsRaw), <<"0">>),
                                   !.formattedRifproSupply = ValueOr(formatAmount(answer.rifproSupply, answer.rifproDecimalsRaw), <<"0">>),
                                   !.formattedMinted = ValueOr(formatAmount(answer.oldUSDRIFSupply, answer.oldUSDRIFDecimalsRaw), <<"0">>)])
  /\ UNCHANGED <<isMounted, effectOn>>
  /\ AppOnly

\* await Promise.all([...]) of the eight required calls settles
RequiredSettle(i, answer) ==
  /\ Running(i, "required")
  /\ LET c == cycles[i]
     IN IF answer.rejects THEN Catch(i, c, RpcError)
        ELSE IF ~isMounted THEN Return(i, c)
        ELSE LET formattedStRIFSupply == formatAmount(answer.stRIFSupply, answer.stRIFDecimalsRaw)
                 formattedRifproSupply == formatAmount(answer.rifproSupply, answer.rifproDecimalsRaw)
                 formattedMinted == formatAmount(answer.oldUSDRIFSupply, answer.oldUSDRIFDecimalsRaw)
             IN IF formattedStRIFSupply.threw \/ formattedRifproSupply.threw \/ formattedMinted.threw
                THEN Catch(i, c, InvalidDecimals)
                ELSE Continue(i, [c EXCEPT !.pc = "rifPrice",
                                           !.probes = <<>>, !.provider = Null,
                                           !.required = Just(answer),
                                           !.formattedStRIFSupply = formattedStRIFSupply.v,
                                           !.formattedRifproSupply = formattedRifproSupply.v,
                                           !.formattedMinted = formattedMinted.v])
  /\ UNCHANGED <<isMounted, effectOn>>
  /\ AppOnly

\* await queryOptionalMetric(... RIF_PRICE_FEED_RLABS ...) settles
RifPriceSettle(i, call) ==
  /\ Running(i, "rifPrice")
  /\ LET c == cycles[i]
         result == queryOptionalMetric(RIF_PRICE_FEED_RLABS, call, OptionalDecimals)
     IN IF result.threw THEN Catch(i, c, RpcError)
        ELSE Continue(i, [c EXCEPT !.pc = "rifPriceMoc",
                                   !.calls = c.calls @@ ("rifPrice" :> call),
                                   !.rifPriceResult = result.v])
  /\ UNCHANGED <<isMounted, effectOn>>
  /\ AppOnly

\* await queryOptionalMetric(... RIF_PRICE_FEED_MOC ...) settles
RifPriceMocSettle(i, call) ==
  /\ Running(i, "rifPriceMoc")
  /\ LET c == cycles[i]
         result == queryOptionalMetric(RIF_PRICE_FEED_MOC, call, OptionalDecimals)
     IN IF result.threw THEN Catch(i, c, RpcError)
        ELSE Continue(i, [c EXCEPT !.pc = "rifCollateral",
                                   !.calls = c.calls @@ ("rifPriceMoc" :> call),
                                   !.rifPriceMocResult = result.v])
  /\ UNCHANGED <<isMounted, effectOn>>
  /\ AppOnly

\* await queryOptionalMetric(... getTotalACavailable ...) settles; without
\* all of collateral, MoC price and minted the cycle runs to its end
RifCollateralSettle(i, call) ==
  /\ Running(i, "rifCollateral")
  /\ LET c == cycles[i]
         result == queryOptionalMetric(MOC_V2_CORE, call, OptionalDecimals)
     IN IF result.threw THEN Catch(i, c, RpcError)
        ELSE LET next == [c EXCEPT !.calls = c.calls @@ ("rifCollateral" :> call),
                                   !.rifCollateralResult = result.v]
             IN IF WantsCoverage(next.rifCollateralResult, next.rifPriceMocResult, next.formattedMinted)
                THEN Continue(i, [next EXCEPT !.pc = "targetCoverage"])
                ELSE Finish(i, next)
  /\ UNCHANGED <<isMounted, effectOn>>
  /\ AppOnly

\* await queryOptionalMetric(... calcCtargemaCA ...) settles (the call rejects
\* too when the contract object has no such function); the calculation and
\* the rest of the cycle follow
TargetCoverageSettle(i, call) ==
  /\ Running(i, "targetCoverage")
  /\ LET c == cycles[i]
         result == queryOptionalMetric(MOC_V2_CORE, call, OptionalDecimals)
         targetCoverageResult == ValueOr(result, Null)
     IN \E mintable \in {IF result.threw THEN NoMintable
                         ELSE MintableCalculation(c.rifCollateralResult, targetCoverageResult,
                                                  c.rifPriceMocResult, c.formattedMinted)} :
          Finish(i, [c EXCEPT !.calls = c.calls @@ ("targetCoverage" :> call),
                              !.targetCoverageResult = targetCoverageResult,
                              !.maxMintable = mintable.maxMintable,
                              !.formattedMaxMintable = mintable.formattedMaxMintable])
  /\ UNCHANGED <<isMounted, effectOn>>
  /\ AppOnly

Init ==
  /\ CalcIdle
  /\ QueryIdle
  /\ FormatIdle
  /\ HistIdle
  /\ AppIdle
  /\ SideIdle

Next ==
  \/ Mount
  \/ Unmount
  \/ IntervalTick
  \/ RefreshClick
  \/ \E i \in 1..MaxCycles, ok \in BOOLEAN : ProviderProbe(i, ok)
  \/ \E i \in 1..MaxCycles, answer \in RequiredAnswers : RequiredSettle(i, answer)
  \/ \E i \in 1..MaxCycles, call \in DisplayPriceAnswers : RifPriceSettle(i, call)
  \/ \E i \in 1..MaxCycles, call \in MocPriceAnswers : RifPriceMocSettle(i, call)
  \/ \E i \in 1..MaxCycles, call \in CollateralAnswers : RifCollateralSettle(i, call)
  \/ \E i \in 1..MaxCycles, call \in CoverageAnswers : TargetCoverageSettle(i, call)

Spec == Init /\ [][Next]_vars

\* the same steps, the calls running at each cleanup of the effect followed
TeardownInit ==
  /\ CalcIdle
  /\ QueryIdle
  /\ FormatIdle
  /\ HistIdle
  /\ AppStart
  /\ tornDown = Just({})
  /\ SideIdle

SpecTeardown == TeardownInit /\ [][Next]_vars

(***************************************************************************)
(* Claims about the refresh cycles (Spec)                                  *)
(***************************************************************************)
\* the chain answered the call of source k in the cycle with record c
Answered(c, k) == k \in DOMAIN c.calls /\ ~c.calls[k].rejects

\* the four inputs of the capacity calculation: the minted supply is there
\* once the required calls resolved, the others when their call answered
CapacityInputs == {"minted", "rifCollateral", "rifPriceMoc", "targetCoverage"}
InputAvailable(c, k) ==
  IF k = "minted" THEN ~c.required.isNull ELSE Answered(c, k)

\* the cycles that have returned
DoneCycles == {i \in 1..Len(cycles) : cycles[i].pc = "done"}
AppliedCycles == {i \in DoneCycles : cycles[i].outcome = "applied"}

InSeq(x, seq) == \E j \in 1..Len(seq) : seq[j] = x

\* C1: a cycle in which one of the four capacity inputs is unavailable ends
\* with no capacity: maxMintable and formattedMaxMintable are null, in the
\* cycle and in the tokenData it sets, and it appends no maxMintable point;
\* the stored maxMintable log has a point only for the cycles in which all
\* four were available.
C1_NoPartialCapacity ==
  /\ \A i \in DoneCycles :
       LET c == cycles[i]
       IN (\E k \in CapacityInputs : ~InputAvailable(c, k)) =>
            /\ c.maxMintable = Null
            /\ c.formattedMaxMintable = Null
            /\ ~InSeq("maxMintable", c.saved)
            /\ c.outcome = "applied" =>
                 /\ c.applied.v.maxMintable = Null
                 /\ c.applied.v.formattedMaxMintable = Null
  /\ Len(StoredItems(storage["maxMintable"])) =
       Cardinality({i \in AppliedCycles : \A k \in CapacityInputs : InputAvailable(cycles[i], k)})

C1_Witness ==
  \E i \in AppliedCycles :
    LET c == cycles[i]
    IN /\ Answered(c, "rifCollateral")
       /\ Answered(c, "rifPriceMoc")
       /\ "targetCoverage" \in DOMAIN c.calls
       /\ ~Answered(c, "targetCoverage")
       /\ c.applied.v.formattedMaxMintable = Null
       /\ c.applied.v.formattedRifCollateral # Null
       /\ storage["maxMintable"] = Absent
       /\ Len(StoredItems(storage["rifCollateral"])) = 1

\* C5: a cycle whose required calls resolved, on an App that stays mounted,
\* ends by setting tokenData without an error whatever optional calls failed
\* (a cycle ends in the error state only from the provider probes or the
\* required calls); the tokenData it sets shows the fetched value of every
\* required supply and of the price and the collateral when their call
\* answered; without the MoC price it shows no capacity, and still the
\* collateral.
C5_OptionalFailuresIsolated ==
  /\ \A i \in DoneCycles :
       /\ cycles[i].outcome = "error" => cycles[i].stage \in {"provider", "required"}
       /\ cycles[i].stage \in {"rifPrice", "rifPriceMoc", "rifCollateral", "targetCoverage"} =>
            cycles[i].outcome \in {"applied", "unmounted"}
  /\ \A i \in AppliedCycles :
       LET c == cycles[i]
           shown == c.applied.v
       IN /\ shown.error = Null
          /\ ~shown.loading
          /\ shown.stRIFSupply = ToStr(c.required.v.stRIFSupply)
          /\ shown.formattedStRIFSupply = formatAmount(c.required.v.stRIFSupply, c.required.v.stRIFDecimalsRaw).v
          /\ shown.formattedRifproSupply = formatAmount(c.required.v.rifproSupply, c.required.v.rifproDecimalsRaw).v
          /\ shown.formattedMinted = Just(formatAmount(c.required.v.oldUSDRIFSupply, c.required.v.oldUSDRIFDecimalsRaw).v)
          /\ Answered(c, "rifPrice") =>
               shown.formattedRifPrice = Just(formatAmount(c.calls["rifPrice"].raw, 18).v)
          /\ Answered(c, "rifCollateral") =>
               shown.formattedRifCollateral = Just(formatAmount(c.calls["rifCollateral"].raw, 18).v)
          /\ ~Answered(c, "rifPriceMoc") =>
               /\ shown.maxMintable = Null
               /\ shown.formattedMaxMintable = Null

C5_Witness ==
  \E i \in AppliedCycles :
    LET c == cycles[i]
        shown == c.applied.v
    IN /\ ~Answered(c, "rifPrice")
       /\ ~Answered(c, "rifPriceMoc")
       /\ Answered(c, "rifCollateral")
       /\ shown.error = Null
       /\ shown.formattedRifCollateral = Just(<<"2", "1", "2", "0", "5", "7", "7", "5", "6">>)
       /\ shown.formattedStRIFSupply = <<"7">>
       /\ shown.formattedRifPrice = Null
       /\ shown.formattedMaxMintable = Null

\* the probes of a log are of the endpoints of the list, in its order
InListOrder(probes) ==
  /\ Len(probes) <= Len(ROOTSTOCK_RPC_ALTERNATIVES)
  /\ \A j \in 1..Len(probes) : probes[j].endpoint = ROOTSTOCK_RPC_ALTERNATIVES[j]

NoneAnswered(probes) == \A j \in 1..Len(probes) : ~probes[j].ok

\* C12: getWorkingProvider probes the endpoints in list order; while it
\* probes, every probe so far has failed; the provider it returns is that of
\* the first endpoint that answered, which is the last one it probed; it
\* returns null only after every endpoint of the list has failed its probe.
C12_FirstWorkingEndpoint ==
  \A i \in 1..Len(cycles) :
    LET c == cycles[i]
        n == Len(c.probes)
    IN /\ InListOrder(c.probes)
       /\ c.pc = "provider" =>
            /\ NoneAnswered(c.probes)
            /\ c.endpoint = n + 1
            /\ c.provider = Null
       /\ c.pc = "required" =>
            /\ n >= 1
            /\ NoneAnswered(SubSeq(c.probes, 1, n - 1))
            /\ c.probes[n].ok
            /\ c.provider = Just(c.probes[n].endpoint)
       /\ (c.pc = "done" /\ c.stage = "provider") =>
            /\ c.outcome = "error"
            /\ n = Len(ROOTSTOCK_RPC_ALTERNATIVES)
            /\ NoneAnswered(c.probes)

C12_Witness ==
  \E i \in 1..Len(cycles) :
    /\ cycles[i].pc = "required"
    /\ cycles[i].probes = <<[endpoint |-> ROOTSTOCK_RPC_ALTERNATIVES[1], ok |-> FALSE],
                            [endpoint |-> ROOTSTOCK_RPC_ALTERNATIVES[2], ok |-> TRUE]>>
    /\ cycles[i].provider = Just(ROOTSTOCK_RPC_ALTERNATIVES[2])

\* the first endpoint failed its probe in the cycle with record c
FirstEndpointFailed(c) == Len(c.probes) >= 1 /\ ~c.probes[1].ok

\* C13: every cycle selects its endpoint from the start of the list, whatever
\* the earlier cycles found: it probes the first endpoint first, and when
\* that answers it uses the first endpoint, also after a cycle in which the
\* first endpoint failed.
C13_SelectionPerCycle ==
  \A j \in 1..Len(cycles) :
    LET c == cycles[j]
    IN /\ (c.pc = "provider" /\ c.probes = <<>>) => c.endpoint = 1
       /\ Len(c.probes) >= 1 =>
            /\ c.probes[1].endpoint = ROOTSTOCK_RPC_ALTERNATIVES[1]
            /\ c.probes[1].ok =>
                 /\ c.pc = "required"
                 /\ Len(c.probes) = 1
                 /\ c.provider = Just(ROOTSTOCK_RPC_ALTERNATIVES[1])

C13_Witness ==
  /\ Len(cycles) >= 2
  /\ cycles[1].pc = "done" /\ cycles[1].stage = "provider"
  /\ FirstEndpointFailed(cycles[1])
  /\ cycles[2].pc = "required"
  /\ cycles[2].provider = Just(ROOTSTOCK_RPC_ALTERNATIVES[1])

\* the fields of tokenData that hold fetched values
ValueFields == DOMAIN INITIAL_TOKEN_DATA \ {"loading", "error"}
SameValues(a, b) == \A f \in ValueFields : a[f] = b[f]

\* C14: a cycle that has no provider yet changes no fetched value, no
\* lastUpdated and no history log, neither when it starts nor when a probe
\* settles, and has made no contract call; when the probe of the last
\* endpoint fails too, the cycle ends there with the error set (and loading
\* false) on a mounted App.
C14_NoEndpointAborts ==
  [][/\ Len(cycles') > Len(cycles) => (SameValues(tokenData', tokenData) /\ storage' = storage)
     /\ \A i \in 1..Len(cycles) :
          (cycles[i].pc = "provider" /\ cycles'[i] # cycles[i]) =>
            /\ SameValues(tokenData', tokenData)
            /\ storage' = storage
            /\ history' = history
            /\ cycles'[i].required = Null
            /\ DOMAIN cycles'[i].calls = {}
            /\ (Len(cycles'[i].probes) = Len(ROOTSTOCK_RPC_ALTERNATIVES)
                  /\ NoneAnswered(cycles'[i].probes)) =>
                 /\ cycles'[i].pc = "done"
                 /\ cycles'[i].outcome = "error"
                 /\ isMounted =>
                      /\ tokenData'.error = Just(NoProvider)
                      /\ ~tokenData'.loading
                      /\ refreshingMetrics' = {}]_vars

C14_Witness ==
  \E i \in DoneCycles :
    /\ cycles[i].stage = "provider"
    /\ cycles[i].outcome = "error"
    /\ Len(cycles[i].probes) = Len(ROOTSTOCK_RPC_ALTERNATIVES)
    /\ tokenData.error = Just(NoProvider)
    /\ tokenData.lastUpdated # Null
    /\ tokenData.formattedMinted # Null
    /\ Len(StoredItems(storage["minted"])) = 1

\* the awaits of fetchTokenData, in the order in which a call reaches them
Awaits == <<"provider", "required", "rifPrice", "rifPriceMoc", "rifCollateral", "targetCoverage">>

\* how far the call with record c has got: the probes made, then the awaits
\* passed, then its return
Progress(c) ==
  IF c.pc = "done" THEN Len(ROOTSTOCK_RPC_ALTERNATIVES) + Len(Awaits)
  ELSE IF c.pc = "provider" THEN c.endpoint - 1
  ELSE Len(ROOTSTOCK_RPC_ALTERNATIVES) - 1 + (CHOOSE p \in 1..Len(Awaits) : Awaits[p] = c.pc)

\* a step in which cycle i returns
Returns(i) == cycles[i].pc # "done" /\ cycles'[i].pc = "done"

\* C17: a cycle is started with loading set (refreshing); a cycle that has
\* not returned waits for a call, and each call that settles takes it
\* further towards its return, so that it returns once its calls have
\* settled; the cycle that returns on a mounted App, with its results or
\* with an error, leaves loading false and no metric marked as refreshing
\* (idle); a cycle returns otherwise only on an unmounted App.
C17_BackToIdle ==
  [][/\ Len(cycles') > Len(cycles) =>
          /\ isMounted'
          /\ tokenData'.loading
          /\ cycles'[Len(cycles')].pc = "provider"
     /\ \A i \in 1..Len(cycles) :
          /\ cycles[i].pc # "done" => InSeq(cycles[i].pc, Awaits)
          /\ cycles'[i] # cycles[i] => Progress(cycles'[i]) > Progress(cycles[i])
          /\ Returns(i) =>
               IF isMounted
               THEN /\ cycles'[i].outcome \in {"applied", "error"}
                    /\ ~tokenData'.loading
                    /\ refreshingMetrics' = {}
               ELSE cycles'[i].outcome \in {"unmounted", "error"}]_vars

C17_Witness ==
  /\ isMounted
  /\ InFlight = 0
  /\ ~tokenData.loading
  /\ refreshingMetrics = {}
  /\ \E i, j \in DoneCycles :
       /\ cycles[i].outcome = "applied"
       /\ cycles[j].outcome = "error" /\ cycles[j].stage = "required"
       /\ tokenData.error # Null

\* C18: while App is unmounted no step changes tokenData, the refreshing
\* marks, isInitialLoad, the history state or a stored log, whatever call
\* settles, and no cycle is started.
C18_TornDownAppliesNothing ==
  [][(~isMounted /\ ~isMounted') =>
       /\ UNCHANGED <<tokenData, refreshingMetrics, isInitialLoad, history, storage>>
       /\ Len(cycles') = Len(cycles)]_vars

C18_Witness ==
  /\ ~isMounted
  /\ tokenData = [INITIAL_TOKEN_DATA EXCEPT !.loading = TRUE]
  /\ \A k \in MetricKeys : storage[k] = Absent
  /\ \E i \in DoneCycles :
       cycles[i].outcome = "unmounted" /\ cycles[i].stage \in {"rifCollateral", "targetCoverage"}
  /\ \E i \in DoneCycles : cycles[i].outcome = "error" /\ cycles[i].stage = "required"

\* when the cycle with record number i set its results
CompletedAt(i) == cycles[i].applied.v.lastUpdated.v

\* C19: every cycle that reaches its end on a mounted App sets its results,
\* whichever cycles have set theirs before: the fetched values that
\* tokenData holds are those of the cycle that completed last, which may be
\* a cycle that started before the others.
C19_LastToCompleteWins ==
  /\ \A i \in DoneCycles :
       cycles[i].stage \in {"rifCollateral", "targetCoverage"} =>
         cycles[i].outcome \in {"applied", "unmounted"}
  /\ AppliedCycles # {} =>
       \E last \in AppliedCycles :
         /\ \A k \in AppliedCycles : CompletedAt(k) <= CompletedAt(last)
         /\ SameValues(tokenData, cycles[last].applied.v)

C19_Witness ==
  /\ {1, 2} \subseteq AppliedCycles
  /\ CompletedAt(2) < CompletedAt(1)
  /\ SameValues(tokenData, cycles[1].applied.v)
  /\ tokenData.formattedRifCollateral = Null
  /\ cycles[2].applied.v.formattedRifCollateral # Null

\* C20: each stored log holds one point for each cycle that completed with a
\* value for the metric, carrying that cycle's value and completion time, in
\* the order of completion: no point is lost or overwritten, whatever the
\* order in which overlapping cycles started and completed.
C20_AppendsInCompletionOrder ==
  /\ \A k \in MetricKeys :
       LET log == StoredItems(storage[k])
           savers == {i \in AppliedCycles : InSeq(k, cycles[i].saved)}
       IN /\ Len(log) = Cardinality(savers)
          /\ \A p \in 1..(Len(log) - 1) : log[p].timestamp.n < log[p + 1].timestamp.n
  /\ \A i \in AppliedCycles :
       \E values \in {metricKeys(cycles[i])} :
         \A j \in 1..Len(cycles[i].saved) :
           LET k == cycles[i].saved[j]
               log == StoredItems(storage[k])
           IN \E p \in 1..Len(log) : log[p] = HistoryPoint(CompletedAt(i), values[k].v)

C20_Witness ==
  /\ {1, 2} \subseteq AppliedCycles
  /\ CompletedAt(2) < CompletedAt(1)
  /\ Len(StoredItems(storage["minted"])) = 2
  /\ StoredItems(storage["minted"])[1].timestamp.n = CompletedAt(2)
  /\ StoredItems(storage["minted"])[2].timestamp.n = CompletedAt(1)
  /\ Len(StoredItems(storage["rifCollateral"])) = 1

\* the tokenData field that holds the formatted value of a fetched metric
FormattedField == [rifPrice |-> "formattedRifPrice", rifCollateral |-> "formattedRifCollateral"]

\* two cycles that set their results one after the other with no cycle that
\* got an answer for metric k setting its results in between
LastResolvedBefore(j, i, k) ==
  /\ CompletedAt(j) < CompletedAt(i)
  /\ Answered(cycles[j], k)
  /\ \A m \in AppliedCycles :
       (CompletedAt(j) < CompletedAt(m) /\ CompletedAt(m) < CompletedAt(i)) =>
         ~Answered(cycles[m], k)

\* C21: a cycle that runs to its end although the call of an optional metric
\* (the price, the collateral) failed in it sets for that metric the raw and
\* the formatted value of the last cycle in which the metric resolved.
C21_Original ==
  \A i, j \in AppliedCycles, k \in DOMAIN FormattedField :
    (~Answered(cycles[i], k) /\ LastResolvedBefore(j, i, k)) =>
      /\ cycles[i].applied.v[k] = cycles[j].applied.v[k]
      /\ cycles[i].applied.v[FormattedField[k]] = cycles[j].applied.v[FormattedField[k]]

\* formatAmount accepts the three supplies of the required answer
Formats(answer) ==
  /\ ~formatAmount(answer.stRIFSupply, answer.stRIFDecimalsRaw).threw
  /\ ~formatAmount(answer.rifproSupply, answer.rifproDecimalsRaw).threw
  /\ ~formatAmount(answer.oldUSDRIFSupply, answer.oldUSDRIFDecimalsRaw).threw

\* C23: a cycle goes on from its required calls to the optional metrics only
\* with the eight answers in hand and the three supplies formatted; when a
\* required call failed or formatAmount raised, the cycle returns at once: it
\* has queried no optional metric, no fetched value, lastUpdated, history
\* state or stored log changes, and on a mounted App the error is set and
\* loading is false.
C23_RequiredFailureAborts ==
  [][\A i \in 1..Len(cycles) :
       (cycles[i].pc = "required" /\ cycles'[i] # cycles[i]) =>
         IF cycles'[i].pc # "done"
         THEN /\ cycles'[i].pc = "rifPrice"
              /\ ~cycles'[i].required.isNull
              /\ ~cycles'[i].required.v.rejects
              /\ Formats(cycles'[i].required.v)
         ELSE /\ DOMAIN cycles'[i].calls = {}
              /\ cycles'[i].saved = <<>>
              /\ SameValues(tokenData', tokenData)
              /\ storage' = storage
              /\ history' = history
              /\ IF isMounted
                 THEN /\ cycles'[i].outcome = "error"
                      /\ tokenData'.error \in {Just(RpcError), Just(InvalidDecimals)}
                      /\ ~tokenData'.loading
                 ELSE cycles'[i].outcome \in {"unmounted", "error"}]_vars

C23_Witness ==
  /\ isMounted
  /\ \E i \in DoneCycles : cycles[i].stage = "required" /\ cycles[i].outcome = "error"
  /\ tokenData.error = Just(InvalidDecimals)
  /\ ~tokenData.loading
  /\ tokenData.formattedRifCollateral # Null
  /\ tokenData.lastUpdated # Null
  /\ Len(StoredItems(storage["minted"])) = 1
  /\ storage["rifPrice"] # Absent

\* the formatted value of metric k in a tokenData, null when it has none
ShownFormatted(data, k) ==
  CASE k = "stRIFSupply" -> Just(data.formattedStRIFSupply)
    [] k = "rifproSupply" -> Just(data.formattedRifproSupply)
    [] k = "minted" -> data.formattedMinted
    [] k = "rifPrice" -> data.formattedRifPrice
    [] k = "rifCollateral" -> data.formattedRifCollateral
    [] k = "maxMintable" -> data.formattedMaxMintable

\* metric k resolved in the cycle with record c, which ran to its end
ResolvedIn(c, k) ==
  CASE k \in {"stRIFSupply", "rifproSupply", "minted"} -> ~c.required.isNull
    [] k \in {"rifPrice", "rifCollateral"} -> Answered(c, k)
    [] k = "maxMintable" -> ~c.formattedMaxMintable.isNull

\* a step in which cycle i sets its results
Applies(i) == Returns(i) /\ cycles'[i].outcome = "applied"

\* C24: the stored logs change only in the step in which a cycle sets its
\* results; in that step the log of every metric that resolved in the cycle
\* (the three supplies always; the price and the collateral when their call
\* answered; the capacity when it was computed, also as 0) gets exactly one
\* point more, at its end, carrying the time of the step and the value the
\* cycle shows for the metric, and the log of every other metric stays as it
\* is.
C24_OnePointPerResolvedMetric ==
  [][/\ storage' # storage => \E i \in 1..Len(cycles) : Applies(i)
     /\ \A i \in 1..Len(cycles) :
          Applies(i) =>
            \A k \in MetricKeys :
              IF ResolvedIn(cycles'[i], k)
              THEN storage'[k] =
                     ArrayOf(Append(StoredItems(storage[k]),
                                    HistoryPoint(now, parseFloat(ShownFormatted(tokenData', k).v))))
              ELSE /\ storage'[k] = storage[k]
                   /\ ShownFormatted(tokenData', k) = Null]_vars

C24_Witness ==
  \E i \in AppliedCycles :
    /\ cycles[i].formattedMaxMintable = Just(<<"0">>)
    /\ ~Answered(cycles[i], "rifPrice")
    /\ SameValues(tokenData, cycles[i].applied.v)
    /\ storage["maxMintable"] = ArrayOf(<<HistoryPoint(CompletedAt(i), parseFloat(<<"0">>))>>)
    /\ Len(StoredItems(storage["minted"])) = 2
    /\ Len(StoredItems(storage["rifCollateral"])) = 1
    /\ storage["rifPrice"] = Absent

\* C26: a call of fetchTokenData that was running when the effect was cleaned
\* up never sets its results and never saves a point, whether or not the
\* effect has run again since.
C26_Original ==
  \A i \in tornDown.v : cycles[i].outcome # "applied" /\ cycles[i].saved = <<>>

\* the tokenData field that holds the raw value of an optional metric, and the
\* field that holds its formatted value
RawAndFormatted ==
  [minted |-> "formattedMinted", rifPrice |-> "formattedRifPrice",
   rifCollateral |-> "formattedRifCollateral", maxMintable |-> "formattedMaxMintable"]

\* C27: in the tokenData that a cycle sets, the raw and the formatted value of
\* a metric are both null or both there; a capacity clamped to 0 is set as
\* raw "0" with formatted "0".
C27_Original ==
  \A i \in AppliedCycles :
    LET shown == cycles[i].applied.v
    IN /\ \A k \in DOMAIN RawAndFormatted :
            (shown[k] = Null) <=> (shown[RawAndFormatted[k]] = Null)
       /\ cycles[i].formattedMaxMintable = Just(<<"0">>) =>
            (shown.maxMintable = Just(<<"0">>) /\ shown.formattedMaxMintable = Just(<<"0">>))

(***************************************************************************)
(* The scores endpoint (api/scores.ts, api/errorLogger.ts)                 *)
(*                                                                         *)
(* The handler is called with one request at a time and answers it.  The   *)
(* scores are kept in Redis when it is configured and answers, and in the  *)
(* scoreStore of the running instance otherwise.                           *)
(***************************************************************************)
MaxRequests == 2    \* requests explored
MEMORY_SCORES == 100
REDIS_SCORES == 1000
DEFAULT_LIMIT == 10
MAX_LIMIT == 100

\* a JavaScript string value
JText(s) == [type |-> "string", s |-> s]

\* the truthiness of a value of a request body
Truthy(x) ==
  CASE x.type = "string" -> x.s # ""
    [] x.type = "number" -> x.n # 0
    [] OTHER -> FALSE

\* String.prototype.trim() of the names that are submitted
Trim(s) == IF s = " " THEN "" ELSE s

\* generateRequestId(): `req_${Date.now()}_${random}`
RequestIds == {"req_1_k3f9a", "req_2_x0b2c"}

\* what the handler is called with: the method, the parsed body of a POST
\* (undefined when the request has none), parseInt of the limit of a GET (null
\* for NaN), whether Redis is configured and answers, and NODE_ENV
ScoreBodies ==
  {JUndefined}
  \cup [type : {"object"}, score : {JNum(-1), JText("7"), JUndefined},
        playerName : {JUndefined}, timezone : {JUndefined}]
  \cup [type : {"object"}, score : {JNum(3), JNum(7)},
        playerName : {JUndefined, JText("Ann"), JText("Anonymous"), JText(" "), JNum(5)},
        timezone : {JUndefined}]
ParsedLimits == {Null, Just(0), Just(1), Just(500)}
RedisStates == {"none", "ok", "failing"}
ScoreRequests ==
  [method : {"OPTIONS", "DELETE"}, body : {JUndefined}, limit : {Null},
   redis : {"none"}, production : BOOLEAN]
  \cup [method : {"POST"}, body : ScoreBodies, limit : {Null},
        redis : RedisStates, production : BOOLEAN]
  \cup [method : {"GET"}, body : {JUndefined}, limit : ParsedLimits,
        redis : RedisStates, production : BOOLEAN]

\* `playerName && playerName.trim() !== '' && playerName !== 'Anonymous'`;
\* a truthy value that is no string has no trim and raises a TypeError
NamedPlayer(playerName) ==
  IF ~Truthy(playerName) THEN Returned(FALSE)
  ELSE IF playerName.type # "string" THEN Threw
  ELSE Returned(Trim(playerName.s) # "" /\ playerName.s # "Anonymous")

\* the entry of saveScore
ScoreEntry(score, playerName, timezone, timestamp) ==
  [score |-> score.n, timestamp |-> timestamp,
   playerName |-> IF Truthy(playerName) THEN playerName ELSE JText("Anonymous"),
   timezone |-> IF Truthy(timezone) THEN timezone ELSE JUndefined]

\* push(entry) and sort((a, b) => b.score - a.score), which is stable, on a
\* list that is sorted already
PushSorted(entries, entry) ==
  LET k == Cardinality({j \in 1..Len(entries) : entries[j].score >= entry.score})
  IN SubSeq(entries, 1, k) \o <<entry>> \o SubSeq(entries, k + 1, Len(entries))

\* the entries of other players
OfOthers(entries, playerName) ==
  SelectSeq(entries, LAMBDA e : e.playerName # playerName)

\* the entries after removing the player's earlier ones, adding the entry
\* and keeping the `keep` highest
StoreScore(entries, entry, playerName, keep) ==
  LET named == NamedPlayer(playerName)
  IN IF named.threw THEN Threw
     ELSE Returned(FirstN(PushSorted(IF named.v THEN OfOthers(entries, playerName) ELSE entries,
                                     entry),
                          keep))

\* saveScore(score, playerName, timezone): Redis when there is a client and
\* its calls succeed, the scoreStore otherwise (also from the catch block)
saveScore(store, redis, state, score, playerName, timezone, timestamp) ==
  LET entry == ScoreEntry(score, playerName, timezone, timestamp)
      inRedis == StoreScore(redis, entry, playerName, REDIS_SCORES)
      inMemory == StoreScore(store, entry, playerName, MEMORY_SCORES)
  IN IF state = "ok" /\ ~inRedis.threw
     THEN [threw |-> FALSE, scoreStore |-> store, redisScores |-> inRedis.v]
     ELSE IF inMemory.threw
     THEN [threw |-> TRUE, scoreStore |-> store, redisScores |-> redis]
     ELSE [threw |-> FALSE, scoreStore |-> inMemory.v, redisScores |-> redis]

\* getLeaderboard(limit)
getLeaderboard(store, redis, state, limit) ==
  IF state = "ok" THEN FirstN(redis, limit) ELSE FirstN(store, limit)

\* the headers the handler sets before it looks at the method
ScoreHeaders(requestId) ==
  [h \in {"Access-Control-Allow-Origin", "Access-Control-Allow-Methods",
          "Access-Control-Allow-Headers", "X-Request-ID"} |->
     CASE h = "Access-Control-Allow-Origin" -> "*"
       [] h = "Access-Control-Allow-Methods" -> "GET, POST, OPTIONS"
       [] h = "Access-Control-Allow-Headers" -> "Content-Type"
       [] h = "X-Request-ID" -> requestId]

\* res.status(s).end() and res.status(s).json(body)
NoBody == [kind |-> "none"]
Json(body) == [kind |-> "json", json |-> body]
Response(status, requestId, body, store, redis) ==
  [status |-> status, headers |-> ScoreHeaders(requestId), body |-> body,
   scoreStore |-> store, redisScores |-> redis]

\* createErrorResponse(error, requestId, defaultMessage)
createErrorResponse(name, message, requestId, defaultMessage, production) ==
  IF production
  THEN [error |-> "Internal Server Error", message |-> defaultMessage,
        requestId |-> requestId, timestamp |-> "now"]
  ELSE [error |-> name, message |-> message, requestId |-> requestId, timestamp |-> "now"]

\* the handler answering an unsupported method without the request id
handlerBareRejection(req, store, redis, requestId, timestamp) ==
  Response(405, requestId,
           Json([error |-> "Method not allowed", message |-> req.method]),
           store, redis)

\* handler(req, res) on the stores given: the response, and the stores after
handler(req, store, redis, requestId, timestamp) ==
  IF req.method = "OPTIONS" THEN Response(200, requestId, NoBody, store, redis)
  ELSE IF req.method = "POST"
  THEN IF req.body.type = "undefined"
       THEN Response(500, requestId,
                     Json(createErrorResponse("TypeError", "Cannot destructure", requestId,
                                              "Failed to save score. Please try again later.",
                                              req.production)),
                     store, redis)
       ELSE IF req.body.score.type # "number" \/ req.body.score.n < 0
       THEN Response(400, requestId,
                     Json([error |-> "Invalid input",
                           message |-> "Score must be a positive number",
                           requestId |-> requestId]),
                     store, redis)
       ELSE LET saved == saveScore(store, redis, req.redis, req.body.score,
                                   req.body.playerName, req.body.timezone, timestamp)
            IN IF saved.threw
               THEN Response(500, requestId,
                             Json(createErrorResponse("TypeError", "playerName.trim is not a function",
                                                      requestId,
                                                      "Failed to save score. Please try again later.",
                                                      req.production)),
                             store, redis)
               ELSE Response(200, requestId, Json([success |-> TRUE, requestId |-> requestId]),
                             saved.scoreStore, saved.redisScores)
  ELSE IF req.method = "GET"
  THEN LET limit == IF req.limit.isNull \/ req.limit.v = 0 THEN DEFAULT_LIMIT ELSE req.limit.v
           sanitizedLimit == IF limit < 1 THEN 1 ELSE IF limit > MAX_LIMIT THEN MAX_LIMIT ELSE limit
       IN Response(200, requestId,
                   Json([leaderboard |-> getLeaderboard(store, redis, req.redis, sanitizedLimit),
                         requestId |-> requestId]),
                   store, redis)
  ELSE Response(405, requestId,
                Json([error |-> "Method not allowed", message |-> req.method,
                      requestId |-> requestId]),
                store, redis)

Served == IF scoreReq = NoRequest THEN 0 ELSE scoreReq.seq

ScoresInit ==
  /\ CalcIdle
  /\ QueryIdle
  /\ FormatIdle
  /\ HistIdle
  /\ AppIdle
  /\ SideIdle

\* one request is handled, Date.now() being the number of requests before it
Handle(req, requestId) ==
  /\ Served < MaxRequests
  /\ LET res == handler(req, scoreStore, redisScores, requestId, Served)
     IN /\ scoreRes' = Done([status |-> res.status, headers |-> res.headers, body |-> res.body])
        /\ scoreStore' = res.scoreStore
        /\ redisScores' = res.redisScores
  /\ scoreReq' = [seq |-> Served + 1, method |-> req.method, body |-> req.body,
                  limit |-> req.limit, redis |-> req.redis, production |-> req.production]
  /\ UNCHANGED <<calcVars, queryVars, formatVars, histVars, appVars, envVars, proxyVars, gameVars>>

ScoresNext == \E req \in ScoreRequests, requestId \in RequestIds : Handle(req, requestId)

SpecScores == ScoresInit /\ [][ScoresNext]_vars

(***************************************************************************)
(* Claims about the scores endpoint (SpecScores)                           *)
(***************************************************************************)
\* the last response carries a request id in X-Request-ID
HasIdHeader ==
  /\ "X-Request-ID" \in DOMAIN scoreRes.result.headers
  /\ scoreRes.result.headers["X-Request-ID"] \in RequestIds

\* the last response has a JSON body whose requestId is that of the header
HasIdBody ==
  /\ scoreRes.result.body.kind = "json"
  /\ "requestId" \in DOMAIN scoreRes.result.body.json
  /\ scoreRes.result.body.json.requestId = scoreRes.result.headers["X-Request-ID"]

RpcOverrides == {Null, Just("https://my-node.example")}

SelectInit ==
  /\ CalcIdle
  /\ QueryIdle
  /\ FormatIdle
  /\ HistIdle
  /\ AppIdle
  /\ ScoreIdle
  /\ ProxyIdle
  /\ GameIdle
  /\ viteRootstockRpc \in RpcOverrides

SelectNext ==
  \/ Mount
  \/ Unmount
  \/ IntervalTick
  \/ RefreshClick
  \/ \E i \in 1..MaxCycles, ok \in BOOLEAN : ProviderProbe(i, ok)
  \/ \E i \in 1..MaxCycles, answer \in RequiredAnswers : RequiredSettle(i, answer)

SpecSelect == SelectInit /\ [][SelectNext]_vars

\* C28: with VITE_ROOTSTOCK_RPC configured, the probes of getWorkingProvider
\* are of the configured endpoint, and the provider it returns is of that
\* endpoint; without it they are of the hardcoded endpoints, in their order.
C28_Original ==
  \A i \in 1..Len(cycles) :
    IF viteRootstockRpc.isNull
    THEN InListOrder(cycles[i].probes)
    ELSE /\ \A j \in 1..Len(cycles[i].probes) :
              cycles[i].probes[j].endpoint = viteRootstockRpc.v
         /\ ~cycles[i].provider.isNull => cycles[i].provider = viteRootstockRpc

(***************************************************************************)
(* The RPC proxy (SpecProxy)                                               *)
(*                                                                         *)
(* Each step is one request handled from its method test to its response:  *)
(* the request's method, its target query parameter, its body as the       *)
(* platform hands it over, and what the upstream endpoint does.            *)
(***************************************************************************)
ALLOWED_RPC_ENDPOINTS ==
  <<"https://public-node.rsk.co", "https://rsk.publicnode.com", "https://rpc.ankr.com/rsk">>

\* the values of ALLOWED_RPC_ENDPOINTS
AllowedEndpoints == {ALLOWED_RPC_ENDPOINTS[i] : i \in 1..Len(ALLOWED_RPC_ENDPOINTS)}

\* req.query.target: absent, empty, an allowed endpoint, or something else
Targets ==
  {Null, Just("")}
    \cup {Just(ALLOWED_RPC_ENDPOINTS[1]), Just(ALLOWED_RPC_ENDPOINTS[3])}
    \cup {Just("https://evil.example"), Just("https://public-node.rsk.co/")}

\* the texts a body arrives as, and JSON.parse of each
BodyTexts == {"{\"method\":\"eth_blockNumber\"}", "5", "{bad"}
JsonParse(text) ==
  CASE text = "{\"method\":\"eth_blockNumber\"}" -> Returned([type |-> "object"])
    [] text = "5" -> Returned([type |-> "number"])
    [] OTHER -> Threw

\* req.body as parsed by the platform or left as text, with req.rawBody
ProxyBodies ==
  {[type |-> "object", rawBody |-> ""]}
    \cup [type : {"undefined"}, rawBody : {"", "{\"method\":\"eth_blockNumber\"}"}]
    \cup [type : {"string"}, text : BodyTexts, rawBody : {""}]

\* what fetch of the endpoint does: a 200 answer, a 502 answer, or a rejection
Upstreams == {"ok", "bad gateway", "rejects"}

ProxyRequests ==
  [method : {"POST", "GET", "OPTIONS", "DELETE"}, target : Targets,
   body : ProxyBodies, upstream : Upstreams]

\* getRpcEndpoint taking any target that is given
getRpcEndpointUnchecked(target) ==
  IF target.isNull \/ target.v = "" THEN Just(ALLOWED_RPC_ENDPOINTS[1]) ELSE target

\* getRpcEndpoint(target): null when the target is not allowed
getRpcEndpoint(target) ==
  IF target.isNull \/ target.v = "" THEN Just(ALLOWED_RPC_ENDPOINTS[1])
  ELSE IF target.v \in AllowedEndpoints THEN target
  ELSE Null

\* the response, and the endpoint fetch was called on
ProxyResponse(status, body, endpoint) ==
  [status |-> status, body |-> body, forwarded |-> endpoint]

\* the JSON-RPC request the handler takes from the body
rpcRequest(body) ==
  IF body.type = "object" THEN Returned([type |-> "object"])
  ELSE LET bodyText == IF body.type = "string" THEN body.text ELSE body.rawBody
       IN IF bodyText = "" THEN Returned(JNull) ELSE JsonParse(bodyText)

\* handler(req, res) of the proxy
rpcHandler(req) ==
  IF req.method = "OPTIONS" THEN ProxyResponse(200, NoBody, Null)
  ELSE IF req.method # "POST"
  THEN ProxyResponse(405, Json([error |-> "Method not allowed"]), Null)
  ELSE LET rpcEndpoint == getRpcEndpoint(req.target)
       IN IF rpcEndpoint.isNull
          THEN ProxyResponse(400, Json([error |-> "Invalid or missing RPC endpoint",
                                        allowedEndpoints |-> ALLOWED_RPC_ENDPOINTS]), Null)
          ELSE LET parsed == rpcRequest(req.body)
               IN IF parsed.threw
                  THEN ProxyResponse(400, Json([error |-> "Invalid request",
                                                message |-> "Request body must be valid JSON"]), Null)
                  ELSE IF parsed.v.type # "object"
                  THEN ProxyResponse(400, Json([error |-> "Invalid request",
                                                message |-> "Request body must be a valid JSON-RPC request"]),
                                     Null)
                  ELSE CASE req.upstream = "ok" ->
                              ProxyResponse(200, Json([jsonrpc |-> "2.0"]), rpcEndpoint)
                         [] req.upstream = "bad gateway" ->
                              ProxyResponse(502, Json([error |-> "RPC endpoint returned 502"]), rpcEndpoint)
                         [] OTHER ->
                              ProxyResponse(500, Json([error |-> "Failed to proxy RPC request"]), rpcEndpoint)

ProxyInit ==
  /\ CalcIdle
  /\ QueryIdle
  /\ FormatIdle
  /\ HistIdle
  /\ AppIdle
  /\ SideIdle

\* one request is handled
Proxy(req) ==
  /\ Len(forwarded) < MaxRequests
  /\ LET res == rpcHandler(req)
     IN /\ proxyRes' = Done([status |-> res.status, body |-> res.body])
        /\ forwarded' = Append(forwarded, res.forwarded)
  /\ proxyReq' = req
  /\ UNCHANGED <<calcVars, queryVars, formatVars, histVars, appVars, scoreVars, envVars, gameVars>>

ProxyNext == \E req \in ProxyRequests : Proxy(req)

SpecProxy == ProxyInit /\ [][ProxyNext]_vars

(***************************************************************************)
(* Claims about the RPC proxy (SpecProxy)                                  *)
(***************************************************************************)
\* what the last request was forwarded to, if it was
LastForwarded == forwarded[Len(forwarded)]

\* every fetch so far was of an allowed endpoint
OnlyAllowed ==
  \A i \in 1..Len(forwarded) : ~forwarded[i].isNull => forwarded[i].v \in AllowedEndpoints

\* a method other than POST and OPTIONS is answered 405 and nothing is forwarded
OtherMethodsRefused ==
  proxyReq.method \notin {"POST", "OPTIONS"} =>
    proxyRes.result.status = 405 /\ LastForwarded.isNull

\* a POST without a target, with a JSON-RPC request, goes to the first allowed endpoint
MissingTargetIsFirst ==
  (proxyReq.method = "POST" /\ proxyReq.target.isNull /\ proxyReq.body.type = "object") =>
    LastForwarded = Just(ALLOWED_RPC_ENDPOINTS[1])

\* C29 as stated: only allowed endpoints are fetched; a POST with a target
\* parameter that is not in the list is answered 400 and nothing is
\* forwarded; a missing target selects the first allowed endpoint; a method
\* other than POST and OPTIONS is answered 405 and nothing is forwarded.
C29_Original ==
  proxyRes.done =>
    /\ OnlyAllowed
    /\ (proxyReq.method = "POST" /\ ~proxyReq.target.isNull
          /\ proxyReq.target.v \notin AllowedEndpoints) =>
         proxyRes.result.status = 400 /\ LastForwarded.isNull
    /\ MissingTargetIsFirst
    /\ OtherMethodsRefused

\* C29: only allowed endpoints are fetched; a POST with a non-empty target
\* that is not in the list is answered 400 and nothing is forwarded; a
\* missing target, and an empty one, selects the first allowed endpoint; a
\* method other than POST and OPTIONS is answered 405 and nothing is
\* forwarded.
C29_OnlyAllowedEndpoints ==
  proxyRes.done =>
    /\ OnlyAllowed
    /\ (proxyReq.method = "POST" /\ ~proxyReq.target.isNull /\ proxyReq.target.v # ""
          /\ proxyReq.target.v \notin AllowedEndpoints) =>
         proxyRes.result.status = 400 /\ LastForwarded.isNull
    /\ MissingTargetIsFirst
    /\ (proxyReq.method = "POST" /\ proxyReq.target = Just("") /\ proxyReq.body.type = "object") =>
         LastForwarded = Just(ALLOWED_RPC_ENDPOINTS[1])
    /\ OtherMethodsRefused

C29_Witness ==
  /\ Len(forwarded) = 2
  /\ forwarded[1] = Just("https://rpc.ankr.com/rsk")
  /\ proxyReq.method = "POST"
  /\ proxyReq.target = Just("https://public-node.rsk.co/")
  /\ proxyReq.body.type = "object"
  /\ proxyRes.done
  /\ proxyRes.result.status = 400
  /\ LastForwarded.isNull

(***************************************************************************)
(* The light-cycle game (SpecGame)                                         *)
(*                                                                         *)
(* The player starts the game, gives directions by key, swipe or button    *)
(* (all of them call changeDirection), the interval calls moveCycle, and   *)
(* after a crash the player resets the game.                               *)
(***************************************************************************)
MaxTicks == 4    \* calls of moveCycle explored

Directions == {"UP", "DOWN", "LEFT", "RIGHT"}

Opposite(dir) ==
  CASE dir = "UP" -> "DOWN"
    [] dir = "DOWN" -> "UP"
    [] dir = "LEFT" -> "RIGHT"
    [] dir = "RIGHT" -> "LEFT"

\* changeDirection(newDir): the value of directionRef.current after it
changeDirection(newDir, currentDir) ==
  IF newDir = "UP" /\ currentDir # "DOWN" THEN "UP"
  ELSE IF newDir = "DOWN" /\ currentDir # "UP" THEN "DOWN"
  ELSE IF newDir = "LEFT" /\ currentDir # "RIGHT" THEN "LEFT"
  ELSE IF newDir = "RIGHT" /\ currentDir # "LEFT" THEN "RIGHT"
  ELSE currentDir

\* the switch of moveCycle: the cell next to prevCycle in the direction
newPos(prevCycle, dir) ==
  CASE dir = "UP" -> [x |-> prevCycle.x, y |-> prevCycle.y - 1]
    [] dir = "DOWN" -> [x |-> prevCycle.x, y |-> prevCycle.y + 1]
    [] dir = "LEFT" -> [x |-> prevCycle.x - 1, y |-> prevCycle.y]
    [] dir = "RIGHT" -> [x |-> prevCycle.x + 1, y |-> prevCycle.y]

checkCollision(pos, theTrail) ==
  \/ pos.x < 0
  \/ pos.x >= GRID_SIZE
  \/ pos.y < 0
  \/ pos.y >= GRID_SIZE
  \/ \E i \in 1..Len(theTrail) : theTrail[i] = pos

GameInit ==
  /\ CalcIdle
  /\ QueryIdle
  /\ FormatIdle
  /\ HistIdle
  /\ AppIdle
  /\ SideIdle

GameOnly == UNCHANGED <<calcVars, queryVars, formatVars, histVars, appVars, scoreVars, envVars, proxyVars>>

startGame ==
  /\ ~gameStarted
  /\ ~gameOver
  /\ gameStarted' = TRUE
  /\ UNCHANGED <<cycle, trail, gameOver, directionRef, lastMove, ticks>>
  /\ GameOnly

\* a key, a swipe or a button asks for a direction
ChangeDirection(newDir) ==
  /\ ~gameOver
  /\ gameStarted
  /\ directionRef' = changeDirection(newDir, directionRef)
  /\ UNCHANGED <<cycle, trail, gameOver, gameStarted, lastMove, ticks>>
  /\ GameOnly

\* the interval fires: moveCycle
MoveCycle ==
  /\ gameStarted
  /\ ~gameOver
  /\ ticks < MaxTicks
  /\ ticks' = ticks + 1
  /\ LET pos == newPos(cycle, directionRef)
     IN IF checkCollision(pos, trail)
        THEN /\ gameOver' = TRUE
             /\ UNCHANGED <<cycle, trail, lastMove>>
        ELSE /\ cycle' = pos
             /\ trail' = Append(trail, cycle)
             /\ lastMove' = Just(directionRef)
             /\ UNCHANGED gameOver
  /\ UNCHANGED <<gameStarted, directionRef>>
  /\ GameOnly

resetGame ==
  /\ gameOver
  /\ cycle' = [x |-> GRID_SIZE \div 2, y |-> GRID_SIZE \div 2]
  /\ directionRef' = "RIGHT"
  /\ trail' = <<>>
  /\ gameOver' = FALSE
  /\ gameStarted' = FALSE
  /\ lastMove' = Null
  /\ UNCHANGED ticks
  /\ GameOnly

GameNext ==
  \/ startGame
  \/ \E newDir \in Directions : ChangeDirection(newDir)
  \/ MoveCycle
  \/ resetGame

SpecGame == GameInit /\ [][GameNext]_vars

(***************************************************************************)
(* Claims about the light-cycle game (SpecGame)                            *)
(***************************************************************************)
\* C30 as stated: whatever directions were asked for since the cycle's last
\* move, the direction the next tick moves the cycle in is not the opposite
\* of that move: an input that would reverse the cycle has no effect.
C30_Original ==
  (gameStarted /\ ~gameOver /\ ~lastMove.isNull) => directionRef # Opposite(lastMove.v)

====
